---- MODULE Spec2Model ----
(***************************************************************************)
(* Model of the GPX track viewer (w2vasia/gps-track): the WorkerPool       *)
(* (utils/workerPool.ts), the parse worker (workers/parseWorker.ts), the   *)
(* GPX parser and its serialization codec (utils/gpxParser.ts) and the     *)
(* file-loading part of GpxViewer (components/GpxViewer.tsx).              *)
(***************************************************************************)
EXTENDS Integers, Sequences, FiniteSets, TLC

(***************************************************************************)
(* Bounds of the model.                                                    *)
(***************************************************************************)
\* parse() calls made on one pool
MaxRequests == 3
\* largest pool size (navigator.hardwareConcurrency) explored
MaxPool == 2
\* terminate() calls made on one pool
MaxTerminates == 2

(***************************************************************************)
(* Values.                                                                 *)
(***************************************************************************)
\* an optional field: absent (undefined / null), or present with value v
None == << >>
Some(v) == << v >>
\* the text of an attribute or element: a decimal number, or text that
\* parseFloat and Date cannot read
NumText(n) == [k |-> "num", v |-> n]
Garbage == [k |-> "junk", v |-> 0]
\* the text "Infinity", and a decimal number followed by other characters
\* ("5abc")
InfText == [k |-> "inftext", v |-> 0]
PrefixText(n) == [k |-> "prefix", v |-> n]
\* a JavaScript number: finite, NaN, or Infinity
Fin(n) == [k |-> "fin", v |-> n]
NaN == [k |-> "nan", v |-> 0]
Infinity == [k |-> "inf", v |-> 0]

\* messages of the Errors the code creates
ErrParse == "Error parsing GPX XML"
ErrTerminated == "Pool terminated"
\* worker.postMessage on undefined: this.workers[NaN] after terminate / size 0
ErrTypeError == "TypeError"
\* new DOMParser() in a worker scope that does not expose DOMParser
ErrNoDOMParser == "DOMParser is not defined"

\* a point element: the optional attributes lat, lon (texts) and the
\* optional texts of its ele, time and name children
PtEl(lat, lon, ele, time, name) ==
  [lat |-> lat, lon |-> lon, ele |-> ele, time |-> time, name |-> name]

\* the top-level elements of a document: a trk with its trkseg elements
\* (each a sequence of trkpt), a rte with its rtept elements, a wpt
Trk(trksegs) == [tag |-> "trk", segs |-> trksegs]
Rte(rtepts) == [tag |-> "rte", segs |-> << rtepts >>]
Wpt(wpt) == [tag |-> "wpt", segs |-> << << wpt >> >>]

\* a GPX document: wf = the markup is well formed; name, desc = the text of
\* the name / desc element at document level, which precedes the other
\* elements; els = the trk, rte and wpt elements in document order
DocA ==
  [wf |-> TRUE, name |-> Some("Morning"), desc |-> None,
   els |-> << Trk(<< << PtEl(Some(NumText(10)), Some(NumText(20)),
                             Some(NumText(100)), Some(NumText(5000)), None),
                        PtEl(Some(NumText(11)), Some(NumText(21)),
                             None, Some(NumText(6000)), None) >> >>),
              Wpt(PtEl(Some(NumText(10)), Some(NumText(20)),
                       None, None, Some("Start"))) >>]
DocB ==
  [wf |-> TRUE, name |-> None, desc |-> Some("loop"),
   els |-> << Trk(<< << PtEl(None, Some(NumText(3)), None, None, None),
                        PtEl(Some(NumText(1)), Some(NumText(2)),
                             Some(NumText(7)), Some(Garbage), None) >>,
                     << PtEl(Some(Garbage), Some(NumText(4)),
                             None, None, None) >> >>),
              Rte(<< PtEl(Some(NumText(5)), Some(NumText(6)),
                          Some(Garbage), None, None) >>) >>]
DocBad ==
  [wf |-> FALSE, name |-> None, desc |-> None, els |-> << >>]
\* the contents handed to parse(): the texts of the documents above
Contents == {"A", "B", "Bad"}
\* new DOMParser().parseFromString(content, 'text/xml')
parseFromString(content) ==
  CASE content = "A" -> DocA
    [] content = "B" -> DocB
    [] OTHER -> DocBad

\* the result of a function that returns (val) or throws (err)
Ok(v) == [ok |-> TRUE, val |-> Some(v), err |-> ""]
Err(m) == [ok |-> FALSE, val |-> None, err |-> m]

(***************************************************************************)
(* utils/gpxParser.ts: the fallback parser and the codec.                  *)
(***************************************************************************)
\* parseFloat of an attribute / element text
parseFloat(t) ==
  CASE t.k = "num" -> Fin(t.v)
    [] t.k = "prefix" -> Fin(t.v)
    [] t.k = "inftext" -> Infinity
    [] OTHER -> NaN
isNaN(x) == x.k = "nan"

\* new Date(text): a Date holding the instant's milliseconds (NaN for an
\* invalid Date)
NewDate(t) == [ms |-> IF t.k = "num" THEN Fin(t.v) ELSE NaN]
\* Date.toISOString(): the canonical text of the instant; an invalid Date
\* throws RangeError
ErrRangeError == "RangeError: Invalid time value"
toISOString(d) == [iso |-> d.ms.v]
\* new Date(isoText)
DateOfISO(s) == [ms |-> Fin(s.iso)]

\* an optional string is truthy when it is present and not empty
Truthy(t) == t # None /\ t[1] # ""

\* parsePoint: null (None) when lat or lon is missing or not a number
parsePoint(el) ==
  IF el.lat = None \/ el.lon = None THEN None
  ELSE IF isNaN(parseFloat(el.lat[1])) \/ isNaN(parseFloat(el.lon[1]))
  THEN None
  ELSE Some([lat |-> parseFloat(el.lat[1]), lng |-> parseFloat(el.lon[1]),
             ele |-> IF el.ele # None /\ ~isNaN(parseFloat(el.ele[1]))
                     THEN Some(parseFloat(el.ele[1])) ELSE None,
             time |-> IF el.time # None /\ ~isNaN(NewDate(el.time[1]).ms)
                      THEN Some(NewDate(el.time[1])) ELSE None,
             name |-> IF Truthy(el.name) THEN el.name ELSE None])

\* the points of a sequence of point elements that parsePoint accepts
RECURSIVE parsePoints(_)
parsePoints(els) ==
  IF els = << >> THEN << >>
  ELSE parsePoint(Head(els)) \o parsePoints(Tail(els))

\* one TrackSegment per sequence of point elements with a valid point
RECURSIVE segmentsOf(_)
segmentsOf(segs) ==
  IF segs = << >> THEN << >>
  ELSE LET points == parsePoints(Head(segs))
       IN (IF Len(points) > 0 THEN << [points |-> points] >> ELSE << >>)
          \o segmentsOf(Tail(segs))

\* the trkseg elements of all trk elements, in document order
RECURSIVE trksegsOf(_)
trksegsOf(trks) ==
  IF trks = << >> THEN << >> ELSE Head(trks) \o trksegsOf(Tail(trks))

\* gpx.querySelectorAll(tag): the children of each matching element, in
\* document order
RECURSIVE querySelectorAll(_, _)
querySelectorAll(els, tag) ==
  IF els = << >> THEN << >>
  ELSE (IF Head(els).tag = tag THEN << Head(els).segs >> ELSE << >>)
       \o querySelectorAll(Tail(els), tag)

\* the name child of the first of these point elements that has one
RECURSIVE firstNameOf(_)
firstNameOf(pts) ==
  IF pts = << >> THEN None
  ELSE IF Head(pts).name # None THEN Head(pts).name
  ELSE firstNameOf(Tail(pts))

\* gpx.querySelector('name'): the first name element of the document, at
\* top level or inside a trkpt, rtept or wpt
firstName(gpx) ==
  IF gpx.name # None THEN gpx.name
  ELSE firstNameOf(trksegsOf(trksegsOf(
         [i \in 1..Len(gpx.els) |-> gpx.els[i].segs])))

\* mutant of parseGPXFallbackDoc: the parsererror element is not looked for
parseGPXFallbackDocNoCheck(gpx) ==
  Ok([name |-> IF Truthy(firstName(gpx)) THEN firstName(gpx) ELSE None,
      desc |-> IF Truthy(gpx.desc) THEN gpx.desc ELSE None,
      author |-> None,
      tracks |-> segmentsOf(trksegsOf(querySelectorAll(gpx.els, "trk")))
                 \o segmentsOf(trksegsOf(querySelectorAll(gpx.els, "rte"))),
      waypoints |-> parsePoints(trksegsOf(trksegsOf(
                      querySelectorAll(gpx.els, "wpt"))))])

\* mutant of parseGPXFallbackDoc: the rte elements are not walked
parseGPXFallbackDocNoRte(gpx) ==
  IF ~gpx.wf THEN Err(ErrParse)
  ELSE Ok([name |-> IF Truthy(firstName(gpx)) THEN firstName(gpx) ELSE None,
           desc |-> IF Truthy(gpx.desc) THEN gpx.desc ELSE None,
           author |-> None,
           tracks |-> segmentsOf(trksegsOf(querySelectorAll(gpx.els, "trk"))),
           waypoints |-> parsePoints(trksegsOf(trksegsOf(
                           querySelectorAll(gpx.els, "wpt"))))])

\* parseGPXFallback after parseFromString returned document gpx
parseGPXFallbackDoc(gpx) ==
  IF ~gpx.wf THEN Err(ErrParse)
  ELSE Ok([name |-> IF Truthy(firstName(gpx)) THEN firstName(gpx) ELSE None,
           desc |-> IF Truthy(gpx.desc) THEN gpx.desc ELSE None,
           author |-> None,
           tracks |-> segmentsOf(trksegsOf(querySelectorAll(gpx.els, "trk")))
                      \o segmentsOf(trksegsOf(
                                      querySelectorAll(gpx.els, "rte"))),
           waypoints |-> parsePoints(trksegsOf(trksegsOf(
                           querySelectorAll(gpx.els, "wpt"))))])

\* parseGPXFallback of each content: a pure function of the text
parseGPXFallbackOf ==
  [gpxContent \in Contents |->
     parseGPXFallbackDoc(parseFromString(gpxContent))]
parseGPXFallback(gpxContent) == parseGPXFallbackOf[gpxContent]

serializeWaypoint(wp) ==
  [lat |-> wp.lat, lng |-> wp.lng, ele |-> wp.ele,
   time |-> IF wp.time # None THEN Some(toISOString(wp.time[1])) ELSE None,
   name |-> IF Truthy(wp.name) THEN wp.name ELSE None]

deserializeWaypoint(sw) ==
  [lat |-> sw.lat, lng |-> sw.lng, ele |-> sw.ele,
   time |-> IF sw.time # None THEN Some(DateOfISO(sw.time[1])) ELSE None,
   name |-> IF Truthy(sw.name) THEN sw.name ELSE None]

\* the waypoints of a GPXData value: of its segments, then standalone
RECURSIVE segmentPoints(_)
segmentPoints(tracks) ==
  IF tracks = << >> THEN << >>
  ELSE Head(tracks).points \o segmentPoints(Tail(tracks))
allWaypoints(data) == segmentPoints(data.tracks) \o data.waypoints

\* wp.time.toISOString() throws: the Date is invalid
toISOStringThrows(wp) == wp.time # None /\ isNaN(wp.time[1].ms)

\* serializeGPXData returns the serialized data, or throws what
\* toISOString throws
serializeGPXData(data) ==
  IF \E i \in 1..Len(allWaypoints(data)) :
       toISOStringThrows(allWaypoints(data)[i])
  THEN Err(ErrRangeError)
  ELSE Ok([name |-> data.name, desc |-> data.desc, author |-> data.author,
           tracks |-> [i \in 1..Len(data.tracks) |->
                         [points |-> [j \in 1..Len(data.tracks[i].points) |->
                            serializeWaypoint(data.tracks[i].points[j])]]],
           waypoints |-> [i \in 1..Len(data.waypoints) |->
                            serializeWaypoint(data.waypoints[i])]])

deserializeGPXData(data) ==
  [name |-> data.name, desc |-> data.desc, author |-> data.author,
   tracks |-> [i \in 1..Len(data.tracks) |->
                 [points |-> [j \in 1..Len(data.tracks[i].points) |->
                    deserializeWaypoint(data.tracks[i].points[j])]]],
   waypoints |-> [i \in 1..Len(data.waypoints) |->
                    deserializeWaypoint(data.waypoints[i])]]

(***************************************************************************)
(* State.                                                                  *)
(***************************************************************************)
VARIABLES
  workers,      \* WorkerPool.workers: the worker numbers, in array order
  nextWorker,   \* WorkerPool.nextWorker
  nextId,       \* WorkerPool.nextId
  pending,      \* WorkerPool.pending: correlation id -> promise handle
  promise,      \* the promises parse() returned, in call order
  reqs,         \* per promise: the id, content and worker of its call
  wstate,       \* per worker: "alive", "terminated" or "crashed"
  inbox,        \* per worker: the requests posted to it, not yet handled
  outbox,       \* per worker: its responses, not yet delivered to the pool
  termCalls,    \* number of terminate() calls made on the pool
  hasDOMParser, \* whether the worker scope exposes DOMParser
  workerAvail,  \* typeof Worker !== 'undefined'
  hw,           \* navigator.hardwareConcurrency || 4
  poolRef,      \* GpxViewer.tsx module variable pool: "null" or "pool"
  mounted,      \* the GpxViewer component is mounted
  calls,        \* the parseWithWorker calls, in call order
  batches,      \* the processFiles calls, in call order
  files,        \* GpxViewer state files
  errors,       \* GpxViewer state errors: the file names reported
  loading,      \* GpxViewer state loading
  fileId,       \* GpxViewer ref nextId
  timers,       \* pending setTimeout(() => setErrors([]), 4000) callbacks
  input,        \* the document handed to the parser
  strategy,     \* the parser function called on it and what its import did
  parsed,       \* what that call returned or threw
  wire,         \* what serializeGPXData returned or threw on the track
  back,         \* what deserializeGPXData returned on the serialized track
  focusedFileId, \* GpxViewer state focusedFileId: a file id, 0 for null
  polylineClicked, \* GpxViewer ref polylineClicked
  shown,        \* the track segments handed to the statistics functions
  report        \* the statistics function called last and what it returned

poolVars == << workers, nextWorker, nextId, pending, promise, reqs,
               wstate, inbox, outbox, termCalls, hasDOMParser >>

viewerVars == << workerAvail, hw, poolRef, mounted, calls, batches, files,
                 errors, loading, fileId, timers >>

parserVars == << input, strategy, parsed, wire, back >>

panelVars == << focusedFileId, polylineClicked >>

statsVars == << shown, report >>

vars == << poolVars, viewerVars, parserVars, panelVars, statsVars >>

\* the pool and its workers as one value, for the methods below
ThePool ==
  [workers |-> workers, nextWorker |-> nextWorker, nextId |-> nextId,
   pending |-> pending, promise |-> promise, reqs |-> reqs,
   wstate |-> wstate, inbox |-> inbox, outbox |-> outbox]

\* the pool is in the state of pool value S
IsPool(S) ==
  /\ workers = S.workers
  /\ nextWorker = S.nextWorker
  /\ nextId = S.nextId
  /\ pending = S.pending
  /\ promise = S.promise
  /\ reqs = S.reqs
  /\ wstate = S.wstate
  /\ inbox = S.inbox
  /\ outbox = S.outbox

\* the state after a method returned pool value S
Becomes(S) ==
  /\ workers' = S.workers
  /\ nextWorker' = S.nextWorker
  /\ nextId' = S.nextId
  /\ pending' = S.pending
  /\ promise' = S.promise
  /\ reqs' = S.reqs
  /\ wstate' = S.wstate
  /\ inbox' = S.inbox
  /\ outbox' = S.outbox

\* a table without entries
EmptyMap == << >>
\* Map.set(k, v)
MapSet(m, k, v) ==
  [i \in DOMAIN m \cup {k} |-> IF i = k THEN v ELSE m[i]]
\* Map.delete(k)
MapDelete(m, k) == [i \in DOMAIN m \ {k} |-> m[i]]

\* a promise just created
NewPromise ==
  [state |-> "pending", value |-> None, error |-> "", by |-> "", byId |-> 0]
\* resolve(value) of a promise: only the first resolve / reject settles it;
\* by = what settled it ("response" with the response's id, "terminate",
\* "throw")
Resolve(p, value, by, byId) ==
  IF p.state = "pending"
  THEN [state |-> "resolved", value |-> Some(value), error |-> "",
        by |-> by, byId |-> byId]
  ELSE p
\* mutant of Reject: a reject that also overwrites a settled promise
RejectOverwrites(p, message, by, byId) ==
  [state |-> "rejected", value |-> None, error |-> message,
   by |-> by, byId |-> byId]

\* reject(new Error(message)) of a promise
Reject(p, message, by, byId) ==
  IF p.state = "pending"
  THEN [state |-> "rejected", value |-> None, error |-> message,
        by |-> by, byId |-> byId]
  ELSE p

\* new WorkerPool(size)
NewPool(size) ==
  [workers |-> [i \in 1..size |-> i], nextWorker |-> 0, nextId |-> 0,
   pending |-> EmptyMap, promise |-> << >>, reqs |-> << >>,
   wstate |-> [i \in 1..size |-> "alive"],
   inbox |-> [i \in 1..size |-> << >>],
   outbox |-> [i \in 1..size |-> << >>]]

\* mutant of parse: the worker is chosen by the number of pending requests
parseByLoad(S, content) ==
  LET id == S.nextId + 1
      n == Len(S.workers)
      worker == IF n = 0 THEN 0
                ELSE S.workers[(Cardinality(DOMAIN S.pending) % n) + 1]
      h == Len(S.promise) + 1
  IN [S EXCEPT
        !.nextId = id,
        !.nextWorker = S.nextWorker + 1,
        !.pending = MapSet(S.pending, id, h),
        !.promise = Append(S.promise,
                      IF worker = 0
                      THEN Reject(NewPromise, ErrTypeError, "throw", 0)
                      ELSE NewPromise),
        !.reqs = Append(S.reqs,
                   [id |-> id, content |-> content, worker |-> worker]),
        !.inbox = IF worker = 0 THEN S.inbox
                  ELSE [S.inbox EXCEPT ![worker] =
                          Append(@, [type |-> "parse", id |-> id,
                                     content |-> content])]]

\* mutant of parse: the correlation id wraps around after two requests
parseIdWraps(S, content) ==
  LET id == (S.nextId % 2) + 1
      n == Len(S.workers)
      worker == IF n = 0 THEN 0 ELSE S.workers[(S.nextWorker % n) + 1]
      h == Len(S.promise) + 1
  IN [S EXCEPT
        !.nextId = S.nextId + 1,
        !.nextWorker = S.nextWorker + 1,
        !.pending = MapSet(S.pending, id, h),
        !.promise = Append(S.promise,
                      IF worker = 0
                      THEN Reject(NewPromise, ErrTypeError, "throw", 0)
                      ELSE NewPromise),
        !.reqs = Append(S.reqs,
                   [id |-> id, content |-> content, worker |-> worker]),
        !.inbox = IF worker = 0 THEN S.inbox
                  ELSE [S.inbox EXCEPT ![worker] =
                          Append(@, [type |-> "parse", id |-> id,
                                     content |-> content])]]

\* WorkerPool.parse(content): the promise is the last one of S.promise
parse(S, content) ==
  LET id == S.nextId + 1
      n == Len(S.workers)
      \* this.workers[this.nextWorker % this.workers.length]; undefined
      \* (0) when the array is empty
      worker == IF n = 0 THEN 0 ELSE S.workers[(S.nextWorker % n) + 1]
      h == Len(S.promise) + 1
  IN [S EXCEPT
        !.nextId = id,
        !.nextWorker = S.nextWorker + 1,
        !.pending = MapSet(S.pending, id, h),
        \* worker.postMessage throws inside the executor when worker is
        \* undefined, which rejects the promise
        !.promise = Append(S.promise,
                      IF worker = 0
                      THEN Reject(NewPromise, ErrTypeError, "throw", 0)
                      ELSE NewPromise),
        !.reqs = Append(S.reqs,
                   [id |-> id, content |-> content, worker |-> worker]),
        !.inbox = IF worker = 0 THEN S.inbox
                  ELSE [S.inbox EXCEPT ![worker] =
                          Append(@, [type |-> "parse", id |-> id,
                                     content |-> content])]]

\* the smallest key of a table with entries
MinKey(m) == CHOOSE k \in DOMAIN m : \A j \in DOMAIN m : k <= j

\* mutant of onmessage: a response settles the oldest pending request,
\* whatever id it carries
onmessageByArrival(S, msg) ==
  IF DOMAIN S.pending = {} THEN S
  ELSE LET id == MinKey(S.pending)
           p == S.pending[id]
       IN [S EXCEPT
             !.pending = MapDelete(S.pending, id),
             !.promise[p] =
                IF msg.type = "result"
                THEN Resolve(@, deserializeGPXData(msg.data[1]), "response",
                             msg.id)
                ELSE Reject(@, msg.message, "response", msg.id)]

\* the onmessage handler the constructor installs on every worker
onmessage(S, msg) ==
  IF msg.id \notin DOMAIN S.pending THEN S
  ELSE LET p == S.pending[msg.id]
       IN [S EXCEPT
             !.pending = MapDelete(S.pending, msg.id),
             !.promise[p] =
                IF msg.type = "result"
                THEN Resolve(@, deserializeGPXData(msg.data[1]), "response",
                             msg.id)
                ELSE Reject(@, msg.message, "response", msg.id)]

\* mutant of terminate: the table is cleared without rejecting its promises
terminateNoReject(S) ==
  [S EXCEPT
     !.wstate = [w \in DOMAIN S.wstate |->
                   IF \E i \in 1..Len(S.workers) : S.workers[i] = w
                   THEN "terminated" ELSE S.wstate[w]],
     !.workers = << >>,
     !.pending = EmptyMap]

\* WorkerPool.terminate()
terminate(S) ==
  [S EXCEPT
     !.wstate = [w \in DOMAIN S.wstate |->
                   IF \E i \in 1..Len(S.workers) : S.workers[i] = w
                   THEN "terminated" ELSE S.wstate[w]],
     !.workers = << >>,
     !.promise = [h \in 1..Len(S.promise) |->
                    IF \E id \in DOMAIN S.pending : S.pending[id] = h
                    THEN Reject(S.promise[h], ErrTerminated, "terminate", 0)
                    ELSE S.promise[h]],
     !.pending = EmptyMap]

\* mutant of workerResponse: the error response does not carry the id
workerResponseNoId(req, domParser) ==
  LET data == IF domParser THEN parseGPXFallback(req.content)
              ELSE Err(ErrNoDOMParser)
      serialized == IF data.ok THEN serializeGPXData(data.val[1]) ELSE data
  IN IF serialized.ok
     THEN [type |-> "result", id |-> req.id,
           data |-> serialized.val, message |-> ""]
     ELSE [type |-> "error", id |-> 0, data |-> None,
           message |-> serialized.err]

\* workers/parseWorker.ts, self.onmessage: the response to one request
workerResponse(req, domParser) ==
  LET data == IF domParser THEN parseGPXFallback(req.content)
              ELSE Err(ErrNoDOMParser)
      serialized == IF data.ok THEN serializeGPXData(data.val[1]) ELSE data
  IN IF serialized.ok
     THEN [type |-> "result", id |-> req.id,
           data |-> serialized.val, message |-> ""]
     ELSE [type |-> "error", id |-> req.id, data |-> None,
           message |-> serialized.err]

(***************************************************************************)
(* The pool used by an arbitrary client.                                   *)
(***************************************************************************)
\* no file is focused
PanelIdle ==
  /\ focusedFileId = 0
  /\ polylineClicked = FALSE

\* no statistics are computed
StatsIdle ==
  /\ shown = << >>
  /\ report = None

\* no document is with the parser
ParserIdle ==
  /\ input = DocBad
  /\ strategy = [fn |-> "", conv |-> ""]
  /\ parsed = None
  /\ wire = None
  /\ back = None

\* no GpxViewer activity
ViewerIdle ==
  /\ calls = << >>
  /\ batches = << >>
  /\ files = << >>
  /\ errors = << >>
  /\ loading = FALSE
  /\ fileId = 0
  /\ timers = 0

Init ==
  /\ \E size \in 0..MaxPool : IsPool(NewPool(size)) /\ hw = size
  /\ termCalls = 0
  /\ hasDOMParser \in BOOLEAN
  /\ workerAvail = TRUE
  /\ poolRef = "pool"
  /\ mounted = FALSE
  /\ ViewerIdle
  /\ ParserIdle
  /\ PanelIdle
  /\ StatsIdle

\* a client calls pool.parse(content)
CallParse(content) ==
  /\ nextId < MaxRequests
  /\ Becomes(parse(ThePool, content))
  /\ UNCHANGED << termCalls, hasDOMParser >>
  /\ UNCHANGED << viewerVars, parserVars, panelVars, statsVars >>

\* a client calls pool.terminate()
CallTerminate ==
  /\ termCalls < MaxTerminates
  /\ Becomes(terminate(ThePool))
  /\ termCalls' = termCalls + 1
  /\ UNCHANGED hasDOMParser
  /\ UNCHANGED << viewerVars, parserVars, panelVars, statsVars >>

\* worker w handles the oldest request posted to it and posts its response
WorkerHandle(w) ==
  /\ w \in DOMAIN wstate
  /\ wstate[w] = "alive"
  /\ inbox[w] # << >>
  /\ inbox' = [inbox EXCEPT ![w] = Tail(@)]
  /\ outbox' = [outbox EXCEPT ![w] =
                  Append(@, workerResponse(Head(inbox[w]), hasDOMParser))]
  /\ UNCHANGED << workers, nextWorker, nextId, pending, promise, reqs,
                  wstate, termCalls, hasDOMParser >>
  /\ UNCHANGED << viewerVars, parserVars, panelVars, statsVars >>

\* the oldest response of worker w reaches the pool's onmessage handler
Deliver(w) ==
  /\ w \in DOMAIN outbox
  /\ outbox[w] # << >>
  /\ Becomes([onmessage(ThePool, Head(outbox[w]))
                EXCEPT !.outbox[w] = Tail(outbox[w])])
  /\ UNCHANGED << termCalls, hasDOMParser >>
  /\ UNCHANGED << viewerVars, parserVars, panelVars, statsVars >>

\* worker w dies (script load failure, out of memory): it handles nothing
\* any more; the pool installs no onerror / onmessageerror handler
Crash(w) ==
  /\ w \in DOMAIN wstate
  /\ wstate[w] = "alive"
  /\ wstate' = [wstate EXCEPT ![w] = "crashed"]
  /\ UNCHANGED << workers, nextWorker, nextId, pending, promise, reqs,
                  inbox, outbox, termCalls, hasDOMParser >>
  /\ UNCHANGED << viewerVars, parserVars, panelVars, statsVars >>

Next ==
  \/ \E content \in Contents : CallParse(content)
  \/ CallTerminate
  \/ \E w \in DOMAIN wstate : WorkerHandle(w)
  \/ \E w \in DOMAIN wstate : Deliver(w)
  \/ \E w \in DOMAIN wstate : Crash(w)

Spec == Init /\ [][Next]_vars

\* the workers never die: the executions of submits, worker responses and
\* terminate() only
\* a document the worker parses and one it rejects: the two kinds of response
ResponsiveContents == {"A", "Bad"}

NextResponsive ==
  \/ \E content \in ResponsiveContents : CallParse(content)
  \/ CallTerminate
  \/ \E w \in DOMAIN wstate : WorkerHandle(w)
  \/ \E w \in DOMAIN wstate : Deliver(w)

\* a live worker's event loop runs its message handler, and a response
\* posted to the main thread is dispatched to the pool's handler
Fairness ==
  \A w \in 1..MaxPool :
    WF_vars(WorkerHandle(w)) /\ WF_vars(Deliver(w))

ResponsiveSpec == Init /\ [][NextResponsive]_vars /\ Fairness

FairSpec == Init /\ [][Next]_vars /\ Fairness

(***************************************************************************)
(* Properties of the pool.                                                 *)
(***************************************************************************)
\* the promises parse() has returned so far
Handles == 1..Len(promise)

\* the request of promise h waits in the inbox of the worker it was posted to
InInbox(h) ==
  /\ reqs[h].worker # 0
  /\ \E i \in 1..Len(inbox[reqs[h].worker]) :
       inbox[reqs[h].worker][i].id = reqs[h].id

\* the response to the request of promise h waits for delivery
InOutbox(h) ==
  /\ reqs[h].worker # 0
  /\ \E i \in 1..Len(outbox[reqs[h].worker]) :
       outbox[reqs[h].worker][i].id = reqs[h].id

\* C1: in executions of submits, worker responses and terminate(), every
\* promise returned by parse() is eventually resolved or rejected: no
\* returned promise stays pending forever (a settled promise stays settled)
C1_EveryPromiseSettles ==
  \A h \in 1..MaxRequests :
    []<>(~(h \in Handles /\ promise[h].state = "pending"))

\* C1 witness: the three ways a promise settles have all happened
C1_Witness ==
  /\ \E h \in Handles : promise[h].by = "response"
  /\ \E h \in Handles : promise[h].by = "terminate"
  /\ \E h \in Handles : promise[h].by = "throw"

\* C2: a promise is settled by a response only if the response carries the
\* id of the promise's own request, and a resolved promise holds the Track
\* the fallback parser yields for the content of its own parse() call
C2_SettledByOwnResponse ==
  \A h \in Handles :
    /\ promise[h].by = "response" => promise[h].byId = reqs[h].id
    /\ promise[h].state = "resolved" =>
         /\ promise[h].by = "response"
         /\ promise[h].value = parseGPXFallback(reqs[h].content).val

\* C2 witness: of two outstanding requests with different well-formed
\* contents, the later one was answered first
C2_Witness ==
  /\ Len(promise) >= 2
  /\ promise[1].state = "pending"
  /\ promise[2].state = "resolved"
  /\ reqs[1].content # reqs[2].content
  /\ parseFromString(reqs[1].content).wf

\* C3: terminate() rejects with 'Pool terminated' exactly the promises that
\* are pending when it is called, leaves the settled ones as they are,
\* terminates every worker and empties the pending table
C3_TerminateRejectsPending ==
  [][CallTerminate =>
       /\ Len(promise') = Len(promise)
       /\ \A h \in Handles :
            IF promise[h].state = "pending"
            THEN /\ promise'[h].state = "rejected"
                 /\ promise'[h].error = ErrTerminated
            ELSE promise'[h] = promise[h]
       /\ workers' = << >>
       /\ \A w \in DOMAIN wstate : wstate'[w] # "alive"
       /\ pending' = EmptyMap]_vars

\* C3 witness: a terminate() found one request resolved and another pending
C3_Witness ==
  /\ termCalls = 1
  /\ \E h \in Handles : promise[h].state = "resolved"
  /\ \E h \in Handles : promise[h].by = "terminate"
  /\ pending = EmptyMap

\* C5: terminate() with nothing pending, or called again after a first
\* call, settles no promise and leaves no workers and an empty table
C5_TerminateIdempotent ==
  [][(CallTerminate /\ (termCalls >= 1 \/
                        \A h \in Handles : promise[h].state # "pending")) =>
       /\ promise' = promise
       /\ workers' = << >>
       /\ pending' = EmptyMap
       /\ termCalls >= 1 => wstate' = wstate]_vars

\* C5 witness: a second terminate() was made on a pool that had workers,
\* after a parse() that followed the first one
C5_Witness ==
  /\ termCalls = 2
  /\ pending = EmptyMap
  /\ \E h \in Handles : promise[h].by = "terminate"
  /\ \E h \in Handles : promise[h].by = "throw"

\* C6: the delivery of a response whose id has no entry in the pending table
\* changes neither the table nor any promise nor the rest of the pool
C6_UnknownResponseDiscarded ==
  [][\A w \in DOMAIN outbox :
       (/\ outbox[w] # << >>
        /\ Head(outbox[w]).id \notin DOMAIN pending
        /\ Deliver(w)) =>
         UNCHANGED << pending, promise, workers, nextWorker, nextId >>]_vars

\* C6 witness: the response to a request that terminate() rejected has been
\* handed to the pool's handler (it left the worker's inbox and outbox)
C6_Witness ==
  \E h \in Handles :
    /\ promise[h].by = "terminate"
    /\ ~InInbox(h)
    /\ ~InOutbox(h)

\* C7: while the pool has its n > 0 workers, the k-th parse() call (k from
\* 0) was posted to worker number k mod n
C7_RoundRobin ==
  Len(workers) > 0 =>
    \A h \in Handles :
      reqs[h].worker = workers[((h - 1) % Len(workers)) + 1]

\* C7 witness: on two workers the third call went to the first worker
\* again, after a response had arrived
C7_Witness ==
  /\ Len(workers) = 2
  /\ Len(reqs) = 3
  /\ reqs[3].worker = workers[1]
  /\ promise[1].state # "pending"
  /\ promise[2].state = "pending"

\* C8: the ids a pool issues are strictly increasing in submission order,
\* and no step replaces the promise of an entry of the pending table
C8_IdsIncrease ==
  [][/\ \A h1, h2 \in 1..Len(reqs') :
          h1 < h2 => reqs'[h1].id < reqs'[h2].id
     /\ \A id \in DOMAIN pending \cap DOMAIN pending' :
          pending'[id] = pending[id]]_vars

\* C8 witness: three requests were submitted and two are outstanding together
C8_Witness ==
  /\ Len(reqs) = 3
  /\ Cardinality(DOMAIN pending) >= 2
  /\ \E h \in Handles : promise[h].by = "response"

\* C20: a live worker that takes a request off its queue posts exactly one
\* response, after those it posted before, with the id of the request: a
\* result with the serialized output of the fallback parser when the parse
\* and the serialization succeed, otherwise an error with a message; and it
\* posts nothing without taking a request
C20_OneResponsePerRequest ==
  [][\A w \in DOMAIN inbox :
       /\ (/\ wstate[w] = "alive" /\ wstate'[w] = "alive"
           /\ inbox[w] # << >>
           /\ inbox'[w] = Tail(inbox[w])) =>
            LET req == Head(inbox[w])
                data == parseGPXFallback(req.content)
            IN /\ Len(outbox'[w]) = Len(outbox[w]) + 1
               /\ SubSeq(outbox'[w], 1, Len(outbox[w])) = outbox[w]
               /\ outbox'[w][Len(outbox'[w])].id = req.id
               /\ IF /\ hasDOMParser
                     /\ data.ok
                     /\ serializeGPXData(data.val[1]).ok
                  THEN /\ outbox'[w][Len(outbox'[w])].type = "result"
                       /\ outbox'[w][Len(outbox'[w])].data
                            = serializeGPXData(data.val[1]).val
                  ELSE /\ outbox'[w][Len(outbox'[w])].type = "error"
                       /\ outbox'[w][Len(outbox'[w])].data = None
                       /\ outbox'[w][Len(outbox'[w])].message # ""
       /\ Len(outbox'[w]) > Len(outbox[w]) =>
            (inbox[w] # << >> /\ inbox'[w] = Tail(inbox[w]))]_vars

\* C20 witness: one worker has answered a request with a result and
\* another request with an error, and both responses wait for delivery
C20_Witness ==
  \E w \in DOMAIN outbox :
    /\ Len(outbox[w]) >= 2
    /\ \E i, j \in 1..Len(outbox[w]) :
         /\ outbox[w][i].type = "result"
         /\ outbox[w][j].type = "error"
         /\ outbox[w][i].id # outbox[w][j].id

\* C27: the keys of the pending table are exactly the ids of the requests
\* that were submitted and are not yet settled, and a settled promise is
\* never settled again
C27_PendingIsUnsettled ==
  /\ [](DOMAIN pending
         = { reqs[h].id :
               h \in { g \in Handles : promise[g].state = "pending" } })
  /\ [][\A h \in Handles :
          promise[h].state # "pending" => promise'[h] = promise[h]]_vars

\* C28: a parse() call made when the pool has no worker (after terminate(),
\* or on a pool of size 0) returns a rejected promise and leaves no entry in
\* the pending table: without workers the table is empty
C28_NoEntryAfterShutdown ==
  /\ \A h \in Handles :
       reqs[h].worker = 0 =>
         /\ promise[h].state = "rejected"
         /\ reqs[h].id \notin DOMAIN pending
  /\ Len(workers) = 0 => DOMAIN pending = {}

\* C4: a request whose worker died before answering it is eventually
\* rejected by the pool
C4_LostRequestRejected ==
  \A h \in 1..(MaxRequests + 1) :
    (/\ h \in Handles
     /\ promise[h].state = "pending"
     /\ reqs[h].worker # 0
     /\ wstate[reqs[h].worker] = "crashed"
     /\ InInbox(h))
      ~> (h \in Handles /\ promise[h].state = "rejected")

(***************************************************************************)
(* utils/gpxParser.ts: parseGPX, the conversion-backed strategy.           *)
(***************************************************************************)
\* toGeoJSON.gpx(doc) of @mapbox/togeojson, the converter parseGPX imports.
\* attrf: parseFloat of an attribute, NaN when the attribute is missing
attrf(a) == IF a = None THEN NaN ELSE parseFloat(a[1])
\* coordPair: [lon, lat] and the elevation when it is a number
coordPair(el) ==
  << attrf(el.lon), attrf(el.lat) >>
  \o (IF el.ele # None /\ ~isNaN(parseFloat(el.ele[1]))
      THEN << parseFloat(el.ele[1]) >> ELSE << >>)
\* getPoints: the line of a trkseg or rte; none for fewer than 2 points
getPoints(pts) ==
  IF Len(pts) < 2 THEN << >>
  ELSE << [i \in 1..Len(pts) |-> coordPair(pts[i])] >>
RECURSIVE linesOf(_)
linesOf(segs) ==
  IF segs = << >> THEN << >>
  ELSE getPoints(Head(segs)) \o linesOf(Tail(segs))
Feature(type, coordinates, name, time) ==
  [type |-> type, coordinates |-> coordinates, name |-> name, time |-> time]
\* getTrack: one LineString or MultiLineString feature per trk with a line
RECURSIVE getTracks(_)
getTracks(trks) ==
  IF trks = << >> THEN << >>
  ELSE LET track == linesOf(Head(trks))
       IN (IF Len(track) = 0 THEN << >>
           ELSE IF Len(track) = 1
           THEN << Feature("LineString", track[1], None, None) >>
           ELSE << Feature("MultiLineString", track, None, None) >>)
          \o getTracks(Tail(trks))
\* getRoute: one LineString feature per rte with a line
RECURSIVE getRoutes(_)
getRoutes(rtes) ==
  IF rtes = << >> THEN << >>
  ELSE LET line == getPoints(Head(rtes)[1])
       IN (IF line = << >> THEN << >>
           ELSE << Feature("LineString", line[1], None, None) >>)
          \o getRoutes(Tail(rtes))
\* getPoint: one Point feature per wpt, its name and time texts as
\* properties
RECURSIVE getWaypoints(_)
getWaypoints(wpts) ==
  IF wpts = << >> THEN << >>
  ELSE << Feature("Point", coordPair(Head(wpts)), Head(wpts).name,
                  Head(wpts).time) >>
       \o getWaypoints(Tail(wpts))
\* the feature collection: tracks, then routes, then waypoints
toGeoJSON(doc) ==
  [name |-> None, description |-> None,
   features |-> getTracks(querySelectorAll(doc.els, "trk"))
                \o getRoutes(querySelectorAll(doc.els, "rte"))
                \o getWaypoints(trksegsOf(trksegsOf(
                                  querySelectorAll(doc.els, "wpt"))))]

\* what the conversion does in one parseGPX call: the import of the
\* converter fails, the converter throws, its result has no features array,
\* or it returns a feature collection
ConvOutcomes == {"importFails", "throws", "noFeatures", "ok"}

coordToWaypoint(coord) ==
  [lat |-> coord[2], lng |-> coord[1],
   ele |-> IF Len(coord) > 2 THEN Some(coord[3]) ELSE None,
   time |-> None, name |-> None]

\* the TrackSegments of the lines of a MultiLineString
lineSegments(lines) ==
  [i \in 1..Len(lines) |->
     [points |-> [j \in 1..Len(lines[i]) |-> coordToWaypoint(lines[i][j])]]]

\* mutant of featureTracks: of a MultiLineString only the first line is
\* taken
RECURSIVE featureTracksFirstLine(_)
featureTracksFirstLine(features) ==
  IF features = << >> THEN << >>
  ELSE LET feature == Head(features)
       IN (CASE feature.type = "LineString" ->
                  lineSegments(<< feature.coordinates >>)
             [] feature.type = "MultiLineString" ->
                  lineSegments(<< feature.coordinates[1] >>)
             [] OTHER -> << >>)
          \o featureTracksFirstLine(Tail(features))

\* the tracks the loop over geojson.features collects
RECURSIVE featureTracks(_)
featureTracks(features) ==
  IF features = << >> THEN << >>
  ELSE LET feature == Head(features)
       IN (CASE feature.type = "LineString" ->
                  lineSegments(<< feature.coordinates >>)
             [] feature.type = "MultiLineString" ->
                  lineSegments(feature.coordinates)
             [] OTHER -> << >>)
          \o featureTracks(Tail(features))

\* the waypoints the loop over geojson.features collects
RECURSIVE featureWaypoints(_)
featureWaypoints(features) ==
  IF features = << >> THEN << >>
  ELSE LET feature == Head(features)
           wp == coordToWaypoint(feature.coordinates)
       IN (IF feature.type = "Point"
           THEN << [wp EXCEPT
                      !.name = IF Truthy(feature.name) THEN feature.name
                               ELSE None,
                      !.time = IF feature.time # None
                               THEN Some(NewDate(feature.time[1]))
                               ELSE None] >>
           ELSE << >>)
          \o featureWaypoints(Tail(features))

\* mutant of parseGPXDoc: a result without features is walked as an empty
\* collection instead of failing over to the fallback parser
parseGPXDocSkipsFeatures(doc, conv) ==
  IF ~doc.wf \/ conv \in {"importFails", "throws"}
  THEN parseGPXFallbackDoc(doc)
  ELSE IF conv = "noFeatures"
  THEN Ok([name |-> None, desc |-> None, author |-> None,
           tracks |-> << >>, waypoints |-> << >>])
  ELSE Ok([name |-> toGeoJSON(doc).name, desc |-> toGeoJSON(doc).description,
           author |-> None,
           tracks |-> featureTracks(toGeoJSON(doc).features),
           waypoints |-> featureWaypoints(toGeoJSON(doc).features)])

\* parseGPX after parseFromString returned document doc, when the
\* conversion does conv
parseGPXDoc(doc, conv) ==
  IF ~doc.wf \/ conv # "ok"
  THEN parseGPXFallbackDoc(doc)
  ELSE LET geojson == toGeoJSON(doc)
       IN Ok([name |-> geojson.name, desc |-> geojson.description,
              author |-> None,
              tracks |-> featureTracks(geojson.features),
              waypoints |-> featureWaypoints(geojson.features)])

\* parseGPX(gpxContent) when the conversion does conv
parseGPXOf ==
  [gpxContent \in Contents, conv \in ConvOutcomes |->
     parseGPXDoc(parseFromString(gpxContent), conv)]
parseGPX(gpxContent, conv) == parseGPXOf[gpxContent, conv]

(***************************************************************************)
(* components/GpxViewer.tsx: parseWithWorker and processFiles.             *)
(***************************************************************************)
\* files offered to one viewer, over all its uploads and drops
MaxFiles == 2
\* TRACK_COLORS.length
TrackColors == 8

\* a File: its name, whether the name ends with .gpx, whether text()
\* succeeds and the text it yields
FileOf(name, isGpx, readable, text) ==
  [name |-> name, isGpx |-> isGpx, readable |-> readable, text |-> text]
FileA == FileOf("a.gpx", TRUE, TRUE, "A")
FileB == FileOf("b.gpx", TRUE, TRUE, "B")
FileBad == FileOf("bad.gpx", TRUE, TRUE, "Bad")
FileGone == FileOf("gone.gpx", TRUE, FALSE, "A")
FileTxt == FileOf("notes.txt", FALSE, TRUE, "A")
\* the file lists uploaded or dropped
Uploads ==
  { << FileA >>, << FileB, FileBad >>, << FileGone, FileA >>, << FileTxt >> }

\* the pool, the workers and the viewer as one value
TheWorld ==
  [workers |-> workers, nextWorker |-> nextWorker, nextId |-> nextId,
   pending |-> pending, promise |-> promise, reqs |-> reqs,
   wstate |-> wstate, inbox |-> inbox, outbox |-> outbox,
   poolRef |-> poolRef, calls |-> calls, batches |-> batches,
   files |-> files, errors |-> errors, loading |-> loading,
   fileId |-> fileId, timers |-> timers]

\* the state after a handler returned world value W
BecomesWorld(W) ==
  /\ Becomes(W)
  /\ poolRef' = W.poolRef
  /\ calls' = W.calls
  /\ batches' = W.batches
  /\ files' = W.files
  /\ errors' = W.errors
  /\ loading' = W.loading
  /\ fileId' = W.fileId
  /\ timers' = W.timers

\* getPool(): a new WorkerPool() when pool is null. The promises of an
\* earlier pool stay in W.promise; that pool was terminated, so its table is
\* empty and the late responses of its workers are discarded
getPool(W) ==
  IF W.poolRef = "null"
  THEN [W EXCEPT
          !.poolRef = "pool",
          !.workers = NewPool(hw).workers,
          !.nextWorker = NewPool(hw).nextWorker,
          !.nextId = NewPool(hw).nextId,
          !.pending = NewPool(hw).pending,
          !.wstate = NewPool(hw).wstate,
          !.inbox = NewPool(hw).inbox,
          !.outbox = NewPool(hw).outbox]
  ELSE W

\* a parseWithWorker call: pc = "awaitPool" (awaiting promise handle),
\* "parseGPX" (awaiting the in-process parser), "fulfilled" or "rejected";
\* conv = what the conversion did when parseGPX ran
NewCall(content, pc, handle) ==
  [content |-> content, pc |-> pc, handle |-> handle, value |-> None,
   conv |-> ""]

\* parseWithWorker(content), up to its first await
parseWithWorker(W, content) ==
  IF ~workerAvail
  THEN [W EXCEPT !.calls = Append(@, NewCall(content, "parseGPX", 0))]
  ELSE LET W1 == parse(getPool(W), content)
       IN [W1 EXCEPT
             !.calls = Append(@, NewCall(content, "awaitPool",
                                         Len(W1.promise)))]

\* mutant of resumeCall: no try / catch around the await
resumeCallNoCatch(c, p) ==
  IF c.pc # "awaitPool" \/ p.state = "pending" THEN c
  ELSE IF p.state = "resolved"
  THEN [c EXCEPT !.pc = "fulfilled", !.value = p.value]
  ELSE [c EXCEPT !.pc = "rejected"]

\* parseWithWorker after its await of promise p: return the value, or catch
\* the rejection and call parseGPX
resumeCall(c, p) ==
  IF c.pc # "awaitPool" \/ p.state = "pending" THEN c
  ELSE IF p.state = "resolved"
  THEN [c EXCEPT !.pc = "fulfilled", !.value = p.value]
  ELSE [c EXCEPT !.pc = "parseGPX"]

\* the continuations of the parseWithWorker calls whose promise is settled
resumeCalls(W) ==
  [W EXCEPT
     !.calls = [i \in 1..Len(W.calls) |->
                  IF W.calls[i].handle = 0 THEN W.calls[i]
                  ELSE resumeCall(W.calls[i],
                                  W.promise[W.calls[i].handle])]]

\* parseWithWorker call c is settled
Settled(c) == c.pc \in {"fulfilled", "rejected"}

\* results.forEach of processFiles, from result i on
RECURSIVE collectResults(_, _, _, _)
collectResults(B, cs, i, acc) ==
  IF i > Len(B.calls) THEN acc
  ELSE collectResults(B, cs, i + 1,
         IF cs[B.calls[i]].pc = "fulfilled"
         THEN [acc EXCEPT
                 !.fileId = @ + 1,
                 !.newEntries =
                    Append(@, [id |-> acc.fileId + 1,
                               fileName |-> B.gpxFiles[i].name,
                               data |-> cs[B.calls[i]].value[1],
                               visible |-> TRUE])]
         ELSE [acc EXCEPT !.failed = Append(@, B.gpxFiles[i].name)])

\* mutant of completeBatch: the new entries replace the files shown
completeBatchReplaces(W, b) ==
  LET B == W.batches[b]
      acc == collectResults(B, W.calls, 1,
               [fileId |-> W.fileId, newEntries |-> << >>, failed |-> << >>])
  IN [W EXCEPT
        !.fileId = acc.fileId,
        !.errors = IF Len(acc.failed) > 0 THEN acc.failed ELSE @,
        !.timers = IF Len(acc.failed) > 0 THEN @ + 1 ELSE @,
        !.files =
           [i \in 1..Len(acc.newEntries) |->
              [id |-> acc.newEntries[i].id,
               fileName |-> acc.newEntries[i].fileName,
               data |-> acc.newEntries[i].data,
               visible |-> acc.newEntries[i].visible,
               color |-> (i - 1) % TrackColors]],
        !.loading = FALSE,
        !.batches[b] = [B EXCEPT !.pc = "done",
                                 !.newEntries = acc.newEntries,
                                 !.failed = acc.failed]]

\* processFiles after await Promise.allSettled(...), for batch b
completeBatch(W, b) ==
  LET B == W.batches[b]
      acc == collectResults(B, W.calls, 1,
               [fileId |-> W.fileId, newEntries |-> << >>, failed |-> << >>])
      prev == W.files
  IN [W EXCEPT
        !.fileId = acc.fileId,
        !.errors = IF Len(acc.failed) > 0 THEN acc.failed ELSE @,
        !.timers = IF Len(acc.failed) > 0 THEN @ + 1 ELSE @,
        !.files = prev \o
           [i \in 1..Len(acc.newEntries) |->
              [id |-> acc.newEntries[i].id,
               fileName |-> acc.newEntries[i].fileName,
               data |-> acc.newEntries[i].data,
               visible |-> acc.newEntries[i].visible,
               color |-> (Len(prev) + (i - 1)) % TrackColors]],
        !.loading = FALSE,
        !.batches[b] = [B EXCEPT !.pc = "done",
                                 !.newEntries = acc.newEntries,
                                 !.failed = acc.failed]]

\* the continuations of the processFiles calls whose parses are all settled
RECURSIVE finishBatches(_, _)
finishBatches(W, b) ==
  IF b > Len(W.batches) THEN W
  ELSE finishBatches(
         IF /\ W.batches[b].pc = "parsing"
            /\ \A i \in 1..Len(W.batches[b].calls) :
                 Settled(W.calls[W.batches[b].calls[i]])
         THEN completeBatch(W, b) ELSE W,
         b + 1)

\* the promise jobs that run before the next event is handled
runMicrotasks(W) == finishBatches(resumeCalls(W), 1)

\* contents.map(c => parseWithWorker(c)) of batch b, from content i on
RECURSIVE startParses(_, _, _)
startParses(W, b, i) ==
  IF i > Len(W.batches[b].gpxFiles) THEN W
  ELSE LET W1 == parseWithWorker(W, W.batches[b].gpxFiles[i].text)
       IN startParses([W1 EXCEPT !.batches[b].calls = Append(@, Len(W1.calls))],
                      b, i + 1)

\* fileList.filter(f => f.name.endsWith('.gpx'))
gpxFilesOf(fileList) == SelectSeq(fileList, LAMBDA f : f.isGpx)

\* the number of files offered in the processFiles calls bs
RECURSIVE Offered(_)
Offered(bs) ==
  IF bs = << >> THEN 0 ELSE Head(bs).offered + Offered(Tail(bs))

ViewerInit ==
  /\ IsPool(NewPool(0))
  /\ termCalls = 0
  /\ hasDOMParser \in BOOLEAN
  /\ workerAvail \in BOOLEAN
  \* with fewer workers the responses arrive in fewer orders, and nothing
  \* else of the viewer depends on the pool size
  /\ hw = MaxPool
  /\ poolRef = "null"
  /\ mounted = TRUE
  /\ ViewerIdle
  /\ ParserIdle
  /\ PanelIdle
  /\ StatsIdle

\* processFiles(fileList) up to its first await
StartProcessFiles(fileList) ==
  /\ mounted
  /\ batches' = Append(batches,
       [offered |-> Len(fileList),
        gpxFiles |-> gpxFilesOf(fileList),
        pc |-> IF Len(gpxFilesOf(fileList)) = 0 THEN "returned"
               ELSE "reading",
        calls |-> << >>, newEntries |-> << >>, failed |-> << >>])
  /\ loading' = IF Len(gpxFilesOf(fileList)) = 0 THEN loading ELSE TRUE
  /\ UNCHANGED << poolVars, workerAvail, hw, poolRef, mounted, calls, files,
                  errors, fileId, timers >>

\* handleFileUpload / handleDrop: processFiles of the files chosen
Upload(fileList) ==
  /\ UNCHANGED << parserVars, panelVars, statsVars >>
  /\ Offered(batches) + Len(fileList) <= MaxFiles
  /\ StartProcessFiles(fileList)

\* processFiles after await Promise.all(gpxFiles.map(f => f.text())): a
\* failed read rejects Promise.all, and only the finally block runs
ReadDone(b) ==
  /\ UNCHANGED << parserVars, panelVars, statsVars >>
  /\ b \in 1..Len(batches)
  /\ batches[b].pc = "reading"
  /\ IF \E i \in 1..Len(batches[b].gpxFiles) : ~batches[b].gpxFiles[i].readable
     THEN BecomesWorld([TheWorld EXCEPT !.batches[b].pc = "failed",
                                        !.loading = FALSE])
     ELSE BecomesWorld(runMicrotasks(
            startParses([TheWorld EXCEPT !.batches[b].pc = "parsing"], b, 1)))
  /\ UNCHANGED << termCalls, hasDOMParser, workerAvail, hw, mounted >>

\* a response reaches the pool's onmessage handler, and the continuations
\* of the settled promise run
ViewerDeliver(w) ==
  /\ UNCHANGED << parserVars, panelVars, statsVars >>
  /\ w \in DOMAIN outbox
  /\ outbox[w] # << >>
  /\ BecomesWorld(runMicrotasks(
       [onmessage(TheWorld, Head(outbox[w]))
          EXCEPT !.outbox[w] = Tail(outbox[w])]))
  /\ UNCHANGED << termCalls, hasDOMParser, workerAvail, hw, mounted >>

\* the parseGPX call of parseWithWorker call c completes
ParseGPXDone(c, conv) ==
  /\ UNCHANGED << parserVars, panelVars, statsVars >>
  /\ c \in 1..Len(calls)
  /\ calls[c].pc = "parseGPX"
  /\ LET r == parseGPX(calls[c].content, conv)
     IN BecomesWorld(runMicrotasks(
          [TheWorld EXCEPT
             !.calls[c] = [@ EXCEPT
                !.pc = IF r.ok THEN "fulfilled" ELSE "rejected",
                !.value = r.val,
                !.conv = conv]]))
  /\ UNCHANGED << termCalls, hasDOMParser, workerAvail, hw, mounted >>

\* the unmount effect: pool?.terminate(); pool = null
Unmount ==
  /\ UNCHANGED << parserVars, panelVars, statsVars >>
  /\ mounted
  /\ mounted' = FALSE
  /\ IF poolRef = "pool"
     THEN /\ BecomesWorld(runMicrotasks(
               [terminate(TheWorld) EXCEPT !.poolRef = "null"]))
          /\ termCalls' = termCalls + 1
     ELSE UNCHANGED << poolVars, poolRef, calls, batches, files, errors,
                       loading, fileId, timers >>
  /\ UNCHANGED << hasDOMParser, workerAvail, hw >>
  /\ poolRef = "null" => UNCHANGED termCalls

\* the callback of setTimeout(() => setErrors([]), 4000)
ErrorsTimeout ==
  /\ UNCHANGED << parserVars, panelVars, statsVars >>
  /\ timers > 0
  /\ timers' = timers - 1
  /\ errors' = << >>
  /\ UNCHANGED << poolVars, workerAvail, hw, poolRef, mounted, calls,
                  batches, files, loading, fileId >>

\* A worker that dies (Crash) only stops handling its inbox, which every
\* behaviour below may do as well, so it adds no state of the viewer
ViewerNext ==
  \/ \E fileList \in Uploads : Upload(fileList)
  \/ \E b \in 1..Len(batches) : ReadDone(b)
  \/ \E w \in DOMAIN wstate : WorkerHandle(w)
  \/ \E w \in DOMAIN wstate : ViewerDeliver(w)
  \/ \E c \in 1..Len(calls) : \E conv \in ConvOutcomes : ParseGPXDone(c, conv)
  \/ Unmount
  \/ ErrorsTimeout

ViewerSpec == ViewerInit /\ [][ViewerNext]_vars

(***************************************************************************)
(* Properties of the viewer.                                               *)
(***************************************************************************)
\* C9: a settled parseWithWorker call that had no worker, or whose pool
\* promise was rejected, has the outcome of parseGPX on its content, and a
\* call is rejected only when parseGPX on its content fails
C9_FallsBackInProcess ==
  \A c \in 1..Len(calls) :
    /\ (/\ Settled(calls[c])
        /\ (calls[c].handle = 0 \/
            promise[calls[c].handle].state = "rejected")) =>
         /\ calls[c].conv \in ConvOutcomes
         /\ calls[c].value = parseGPX(calls[c].content, calls[c].conv).val
         /\ (calls[c].pc = "fulfilled") =
              parseGPX(calls[c].content, calls[c].conv).ok
    /\ calls[c].pc = "rejected" =>
         \A conv \in ConvOutcomes : ~parseGPX(calls[c].content, conv).ok

\* C9 witness: one call fell back after terminate() rejected its promise
\* and was fulfilled in process, another fell back after the worker's error
\* response and was rejected
C9_Witness ==
  /\ \E c \in 1..Len(calls) :
       /\ calls[c].handle # 0
       /\ promise[calls[c].handle].by = "terminate"
       /\ calls[c].pc = "fulfilled"
  /\ \E c \in 1..Len(calls) :
       /\ calls[c].handle # 0
       /\ promise[calls[c].handle].by = "response"
       /\ calls[c].pc = "rejected"

\* C10: a processFiles call that has ended gave every .gpx file of its
\* batch one outcome: as many new entries and failed names as files, and a
\* file that can be read and parsed is among the new entries
C10_EveryFileHasOutcome ==
  \A b \in 1..Len(batches) :
    batches[b].pc \in {"done", "failed"} =>
      /\ Len(batches[b].newEntries) + Len(batches[b].failed)
           = Len(batches[b].gpxFiles)
      /\ \A i \in 1..Len(batches[b].gpxFiles) :
           (/\ batches[b].gpxFiles[i].readable
            /\ parseFromString(batches[b].gpxFiles[i].text).wf) =>
             \E j \in 1..Len(batches[b].newEntries) :
               batches[b].newEntries[j].fileName = batches[b].gpxFiles[i].name

\* content is not well-formed XML
Malformed(content) == ~parseFromString(content).wf

\* C13: for a document that is not well-formed XML the fallback parser
\* throws, parseGPX rejects whatever the conversion does, the worker answers
\* with an error response, no pool promise and no parseWithWorker call is
\* fulfilled with a Track for it, and when the parses of its batch have
\* settled the file is among the failed ones and not among the files shown
C13_MalformedFails ==
  /\ \A content \in Contents : Malformed(content) =>
       /\ ~parseGPXFallback(content).ok
       /\ \A conv \in ConvOutcomes : ~parseGPX(content, conv).ok
       /\ \A d \in BOOLEAN :
            workerResponse([id |-> 1, content |-> content, worker |-> 1],
                           d).type = "error"
  /\ \A h \in 1..Len(promise) :
       Malformed(reqs[h].content) => promise[h].state # "resolved"
  /\ \A c \in 1..Len(calls) :
       Malformed(calls[c].content) => calls[c].pc # "fulfilled"
  /\ \A b \in 1..Len(batches) : \A i \in 1..Len(batches[b].gpxFiles) :
       (batches[b].pc = "done" /\ Malformed(batches[b].gpxFiles[i].text)) =>
         /\ \E j \in 1..Len(batches[b].failed) :
              batches[b].failed[j] = batches[b].gpxFiles[i].name
         /\ \A j \in 1..Len(batches[b].newEntries) :
              batches[b].newEntries[j].fileName # batches[b].gpxFiles[i].name
  /\ \A i \in 1..Len(files) : files[i].fileName # FileBad.name

\* C13 witness: a malformed file went through the worker, whose error
\* response rejected the pool promise, then through parseGPX, and its batch
\* ended with the file reported as failed
C13_Witness ==
  \E b \in 1..Len(batches) : \E i \in 1..Len(batches[b].gpxFiles) :
    /\ batches[b].pc = "done"
    /\ Malformed(batches[b].gpxFiles[i].text)
    /\ LET c == calls[batches[b].calls[i]]
       IN /\ c.handle # 0
          /\ promise[c.handle].by = "response"
          /\ promise[c.handle].error = ErrParse
          /\ c.pc = "rejected"
    /\ errors = batches[b].failed

\* processFiles call b is still in progress: reading or parsing its files
InProgress(b) == batches[b].pc \in {"reading", "parsing"}

\* C29: the loading flag is true whenever at least one processFiles call is
\* still in progress, and false once none is
C29_LoadingWhileInProgress ==
  loading <=> \E b \in 1..Len(batches) : InProgress(b)

(***************************************************************************)
(* The parser and the codec on their own: a document is parsed by one of   *)
(* the parser functions, the result serialized and deserialized.           *)
(***************************************************************************)
\* top-level elements of one document
MaxEls == 2

\* point elements: valid ones, and ones with a missing or unreadable part
PtFull == PtEl(Some(NumText(1)), Some(NumText(2)),
               Some(NumText(10)), Some(NumText(1000)), None)
PtNamed == PtEl(Some(NumText(3)), Some(NumText(4)), None, None, Some("x"))
PtPlain == PtEl(Some(NumText(5)), Some(NumText(6)), Some(Garbage), None, None)
PtNoLat == PtEl(None, Some(NumText(2)), None, None, None)
PtJunkLon == PtEl(Some(NumText(1)), Some(Garbage), None, None, None)
PtInfLat == PtEl(Some(InfText), Some(NumText(2)), None, None, None)
PtPrefixLat == PtEl(Some(PrefixText(7)), Some(NumText(2)), None, None, None)
PtBadTime == PtEl(Some(NumText(8)), Some(NumText(9)), None, Some(Garbage),
                  Some("y"))

\* the elements the documents are made of
Elements ==
  { Trk(<< << PtFull, PtNamed >> >>),
    Trk(<< << PtFull, PtNamed >>, << PtNamed, PtPlain >> >>),
    Trk(<< << PtNoLat, PtFull, PtJunkLon, PtNamed >> >>),
    Trk(<< << PtNoLat, PtJunkLon >> >>),
    Trk(<< << PtInfLat, PtFull >> >>),
    Trk(<< << PtPrefixLat, PtFull >> >>),
    Rte(<< PtFull, PtNamed, PtPlain >>),
    Rte(<< PtNamed >>),
    Rte(<< PtNoLat, PtPlain >>),
    Wpt(PtNamed),
    Wpt(PtBadTime),
    Wpt(PtNoLat) }

\* the sequences of at most n elements
RECURSIVE ElementSeqs(_)
ElementSeqs(n) ==
  IF n = 0 THEN { << >> }
  ELSE ElementSeqs(n - 1)
       \cup { Append(els, e) : els \in ElementSeqs(n - 1), e \in Elements }

\* the documents parsed: well-formed ones with and without a name, and one
\* that is not well formed
Documents ==
  { [wf |-> TRUE, name |-> name, desc |-> Some(""), els |-> els] :
      name \in {None, Some("Trip")}, els \in ElementSeqs(MaxEls) }
  \cup { DocBad }

\* the pool and the viewer are not in use
PoolIdle ==
  /\ IsPool(NewPool(0))
  /\ termCalls = 0
  /\ hasDOMParser = TRUE
  /\ workerAvail = TRUE
  /\ hw = 0
  /\ poolRef = "null"
  /\ mounted = FALSE
  /\ ViewerIdle

ParserInit ==
  /\ PoolIdle
  /\ PanelIdle
  /\ StatsIdle
  /\ input \in Documents
  /\ strategy = [fn |-> "", conv |-> ""]
  /\ parsed = None
  /\ wire = None
  /\ back = None

\* a parser function is called on the document and returns or throws
CallParseGPXFallback ==
  /\ parsed = None
  /\ strategy' = [fn |-> "parseGPXFallback", conv |-> ""]
  /\ parsed' = Some(parseGPXFallbackDoc(input))
  /\ UNCHANGED << input, wire, back >>
  /\ UNCHANGED << poolVars, viewerVars, panelVars, statsVars >>

CallParseGPX(conv) ==
  /\ parsed = None
  /\ strategy' = [fn |-> "parseGPX", conv |-> conv]
  /\ parsed' = Some(parseGPXDoc(input, conv))
  /\ UNCHANGED << input, wire, back >>
  /\ UNCHANGED << poolVars, viewerVars, panelVars, statsVars >>

\* serializeGPXData is called on the track the parser returned
CallSerialize ==
  /\ parsed # None /\ parsed[1].ok
  /\ wire = None
  /\ wire' = Some(serializeGPXData(parsed[1].val[1]))
  /\ UNCHANGED << input, strategy, parsed, back >>
  /\ UNCHANGED << poolVars, viewerVars, panelVars, statsVars >>

\* deserializeGPXData is called on the serialized track
CallDeserialize ==
  /\ wire # None /\ wire[1].ok
  /\ back = None
  /\ back' = Some(deserializeGPXData(wire[1].val[1]))
  /\ UNCHANGED << input, strategy, parsed, wire >>
  /\ UNCHANGED << poolVars, viewerVars, panelVars, statsVars >>

ParserNext ==
  \/ CallParseGPXFallback
  \/ \E conv \in ConvOutcomes : CallParseGPX(conv)
  \/ CallSerialize
  \/ CallDeserialize

ParserSpec == ParserInit /\ [][ParserNext]_vars

(***************************************************************************)
(* Properties of the parser and the codec.                                 *)
(***************************************************************************)
\* a track was produced by one of the two strategies
Produced == parsed # None /\ parsed[1].ok

\* C11: serializing a track a parse strategy produced never fails, and
\* deserializing the serialized track gives a track equal to it
C11_RoundTrip ==
  /\ (Produced /\ wire # None) => wire[1].ok
  /\ (Produced /\ back # None) => back[1] = parsed[1].val[1]

\* C12: when the conversion fails (the import fails, the converter throws,
\* its result has no features to walk), parseGPX returns what the fallback
\* parser returns or throws on the same document, and parseGPX fails only
\* if the fallback parser fails
C12_FallsBackOnFailure ==
  (parsed # None /\ strategy.fn = "parseGPX") =>
     /\ strategy.conv # "ok" => parsed[1] = parseGPXFallbackDoc(input)
     /\ ~parsed[1].ok => ~parseGPXFallbackDoc(input).ok

\* C12 witness: the conversion failed on a document on which it would
\* have given another track than the fallback parser, and parseGPX returned
\* the fallback parser's track
C12_Witness ==
  /\ parsed # None
  /\ strategy.fn = "parseGPX"
  /\ strategy.conv \in {"importFails", "throws", "noFeatures"}
  /\ parsed[1].ok
  /\ Len(parsed[1].val[1].tracks) > 0
  /\ parseGPXDoc(input, "ok") # parsed[1]

\* the text of an attribute is a decimal number
IsNumeric(a) == a # None /\ a[1].k = "num"

\* the point elements of els with a numeric lat and a numeric lon, in order
RECURSIVE NumericEls(_)
NumericEls(els) ==
  IF els = << >> THEN << >>
  ELSE (IF IsNumeric(Head(els).lat) /\ IsNumeric(Head(els).lon)
        THEN << Head(els) >> ELSE << >>)
       \o NumericEls(Tail(els))

\* the coordinates written in point elements, and those of parsed points
WrittenCoords(els) ==
  [i \in 1..Len(els) |-> << Fin(els[i].lat[1].v), Fin(els[i].lon[1].v) >>]
Coords(points) ==
  [i \in 1..Len(points) |-> << points[i].lat, points[i].lng >>]

\* the trkseg and rte point lists of a document in the order the fallback
\* parser walks them, and its wpt elements
SourceSegments(doc) ==
  trksegsOf(querySelectorAll(doc.els, "trk"))
  \o trksegsOf(querySelectorAll(doc.els, "rte"))
SourceWaypoints(doc) ==
  trksegsOf(trksegsOf(querySelectorAll(doc.els, "wpt")))

\* the source segments that have a point with numeric lat and lon
RECURSIVE NumericSegments(_)
NumericSegments(segs) ==
  IF segs = << >> THEN << >>
  ELSE (IF NumericEls(Head(segs)) # << >>
        THEN << NumericEls(Head(segs)) >> ELSE << >>)
       \o NumericSegments(Tail(segs))

\* the fallback parser was called on a well-formed document
FallbackCalled ==
  parsed # None /\ strategy.fn = "parseGPXFallback" /\ input.wf

\* C14: the fallback parser succeeds on a well-formed document, and the
\* points of each segment and the waypoints are exactly those of the trkpt,
\* rtept and wpt elements whose lat and lon are present and numeric, in
\* their order, with the coordinates written
C14_InvalidPointsDropped ==
  FallbackCalled =>
    /\ parsed[1].ok
    /\ LET data == parsed[1].val[1]
           segs == NumericSegments(SourceSegments(input))
       IN /\ Len(data.tracks) = Len(segs)
          /\ \A i \in 1..Len(segs) :
               i <= Len(data.tracks) =>
                 Coords(data.tracks[i].points) = WrittenCoords(segs[i])
          /\ Coords(data.waypoints)
               = WrittenCoords(NumericEls(SourceWaypoints(input)))

\* a number is finite
IsFinite(x) == x.k = "fin"

\* C15: every point of a Track either strategy returns, in a segment or
\* standalone, has a finite latitude and a finite longitude
C15_FiniteCoordinates ==
  Produced =>
    \A i \in 1..Len(allWaypoints(parsed[1].val[1])) :
      /\ IsFinite(allWaypoints(parsed[1].val[1])[i].lat)
      /\ IsFinite(allWaypoints(parsed[1].val[1])[i].lng)

\* a point element is valid: its lat and lon are read as numbers
ValidEl(el) ==
  /\ el.lat # None /\ ~isNaN(parseFloat(el.lat[1]))
  /\ el.lon # None /\ ~isNaN(parseFloat(el.lon[1]))

\* the number of source segments with a valid point
RECURSIVE CountValidSegments(_)
CountValidSegments(segs) ==
  IF segs = << >> THEN 0
  ELSE (IF \E i \in 1..Len(Head(segs)) : ValidEl(Head(segs)[i])
        THEN 1 ELSE 0)
       + CountValidSegments(Tail(segs))

\* C16: either strategy succeeds on a well-formed document; every
\* TrackSegment it returns has a point; there are no more TrackSegments than
\* source segments and routes with a valid point; and a document without a
\* valid point gives a Track with no segment and no waypoint
C16_NoEmptySegments ==
  (parsed # None /\ input.wf) =>
    /\ parsed[1].ok
    /\ LET data == parsed[1].val[1]
       IN /\ \A i \in 1..Len(data.tracks) : Len(data.tracks[i].points) >= 1
          /\ Len(data.tracks) <= CountValidSegments(SourceSegments(input))
          /\ (/\ CountValidSegments(SourceSegments(input)) = 0
              /\ CountValidSegments(<< SourceWaypoints(input) >>) = 0) =>
                (data.tracks = << >> /\ data.waypoints = << >>)

\* the trkseg and rte point lists of a document, in document order
RECURSIVE DocumentOrderSegments(_)
DocumentOrderSegments(els) ==
  IF els = << >> THEN << >>
  ELSE (IF Head(els).tag \in {"trk", "rte"} THEN Head(els).segs ELSE << >>)
       \o DocumentOrderSegments(Tail(els))

\* the source segments that have a valid point, each with its valid points
RECURSIVE ValidSegments(_)
ValidSegments(segs) ==
  IF segs = << >> THEN << >>
  ELSE (IF \E i \in 1..Len(Head(segs)) : ValidEl(Head(segs)[i])
        THEN << SelectSeq(Head(segs), ValidEl) >> ELSE << >>)
       \o ValidSegments(Tail(segs))

\* C17: the TrackSegments the fallback parser returns are those of the
\* track segments and routes with a valid point, in the order in which
\* these are written in the document, each with its valid points in the
\* order written
C17_DocumentOrder ==
  (FallbackCalled /\ parsed[1].ok) =>
    LET data == parsed[1].val[1]
        segs == ValidSegments(DocumentOrderSegments(input.els))
    IN /\ Len(data.tracks) = Len(segs)
       /\ \A i \in 1..Len(segs) :
            i <= Len(data.tracks) =>
              Coords(data.tracks[i].points)
                = [j \in 1..Len(segs[i]) |->
                     << parseFloat(segs[i][j].lat[1]),
                        parseFloat(segs[i][j].lon[1]) >>]

\* the coordinates the valid point elements of els are read as
ReadCoords(els) ==
  [j \in 1..Len(els) |->
     << parseFloat(els[j].lat[1]), parseFloat(els[j].lon[1]) >>]

\* the routes of the document that have a valid rtept, each with its valid
\* rtept elements
ValidRoutes == ValidSegments(trksegsOf(querySelectorAll(input.els, "rte")))

\* C18: the last TrackSegments the fallback parser returns are one per rte
\* element with a valid rtept, each holding all valid rtept of its rte in
\* their order; without trk elements these are all the TrackSegments
C18_OneSegmentPerRoute ==
  (FallbackCalled /\ parsed[1].ok) =>
    LET tracks == parsed[1].val[1].tracks
        n == Len(tracks)
        k == Len(ValidRoutes)
    IN /\ n >= k
       /\ \A j \in 1..k :
            n >= k =>
              /\ Len(tracks[n - k + j].points) = Len(ValidRoutes[j])
              /\ Coords(tracks[n - k + j].points) = ReadCoords(ValidRoutes[j])
       /\ querySelectorAll(input.els, "trk") = << >> => n = k

\* C18 witness: a document with a trk and one rte of 3 valid rtept was
\* parsed, and the last of its two TrackSegments has 3 points
C18_Witness ==
  /\ FallbackCalled
  /\ parsed[1].ok
  /\ Len(ValidRoutes) = 1
  /\ Len(ValidRoutes[1]) = 3
  /\ querySelectorAll(input.els, "trk") # << >>
  /\ Len(parsed[1].val[1].tracks) = 2
  /\ Len(parsed[1].val[1].tracks[2].points) = 3

\* the conversion-backed strategy walked the converter's result
Converted ==
  parsed # None /\ strategy.fn = "parseGPX" /\ strategy.conv = "ok"
  /\ input.wf

\* the features the converter returned for the document
ConvertedFeatures == toGeoJSON(input).features

\* the number of lines of the line features before feature i
RECURSIVE LinesBefore(_, _)
LinesBefore(features, i) ==
  IF i <= 1 THEN 0
  ELSE LinesBefore(features, i - 1)
       + (CASE features[i - 1].type = "LineString" -> 1
            [] features[i - 1].type = "MultiLineString" ->
                 Len(features[i - 1].coordinates)
            [] OTHER -> 0)

\* C19: in the conversion-backed strategy a MultiLineString feature with m
\* lines gives m consecutive TrackSegments, the l-th holding the coordinates
\* of the l-th line in order, and the line features give no other
\* TrackSegment
C19_SegmentPerLine ==
  (Converted /\ parsed[1].ok) =>
    LET tracks == parsed[1].val[1].tracks
        fs == ConvertedFeatures
    IN /\ Len(tracks) = LinesBefore(fs, Len(fs) + 1)
       /\ \A i \in 1..Len(fs) :
            fs[i].type = "MultiLineString" =>
              \A l \in 1..Len(fs[i].coordinates) :
                LET t == LinesBefore(fs, i) + l
                    line == fs[i].coordinates[l]
                IN /\ t <= Len(tracks)
                   /\ t <= Len(tracks) =>
                        Coords(tracks[t].points)
                          = [j \in 1..Len(line) |->
                               << line[j][2], line[j][1] >>]

\* C19 witness: the converter returned a MultiLineString of 2 different
\* lines after another line feature, and the track has 3 TrackSegments
C19_Witness ==
  /\ Converted
  /\ parsed[1].ok
  /\ Len(ConvertedFeatures) = 2
  /\ ConvertedFeatures[1].type = "LineString"
  /\ ConvertedFeatures[2].type = "MultiLineString"
  /\ Len(ConvertedFeatures[2].coordinates) = 2
  /\ ConvertedFeatures[2].coordinates[1] # ConvertedFeatures[2].coordinates[2]
  /\ Len(parsed[1].val[1].tracks) = 3

(***************************************************************************)
(* utils/trackStats.ts, and focusedStats of components/GpxViewer.tsx.      *)
(***************************************************************************)
\* arithmetic of JavaScript numbers
NegInfinity == [k |-> "ninf", v |-> 0]
\* a / b with b a positive finite number, held as the exact fraction
Quotient(a, b) ==
  CASE a.k = "fin" -> [k |-> "quot", v |-> << a.v, b.v >>]
    [] OTHER -> a
Negate(a) ==
  CASE a.k = "fin" -> Fin(-a.v)
    [] a.k = "inf" -> NegInfinity
    [] a.k = "ninf" -> Infinity
    [] OTHER -> NaN
\* a + b; of two quotients when they have the same denominator
Plus(a, b) ==
  CASE a.k = "nan" \/ b.k = "nan" -> NaN
    [] a.k = "fin" /\ b.k = "fin" -> Fin(a.v + b.v)
    [] a.k = "quot" /\ b.k = "quot" /\ a.v[2] = b.v[2] ->
         [k |-> "quot", v |-> << a.v[1] + b.v[1], a.v[2] >>]
    [] a.k \in {"fin", "quot"} -> b
    [] b.k \in {"fin", "quot"} -> a
    [] a.k = b.k -> a
    [] OTHER -> NaN
Minus(a, b) == Plus(a, Negate(b))
MathAbs(a) ==
  CASE a.k = "fin" -> Fin(IF a.v < 0 THEN -a.v ELSE a.v)
    [] a.k \in {"inf", "ninf"} -> Infinity
    [] OTHER -> NaN
\* a > b: false when either is NaN
Greater(a, b) ==
  CASE a.k = "nan" \/ b.k = "nan" -> FALSE
    [] a.k = "fin" /\ b.k = "fin" -> a.v > b.v
    [] a.k = "inf" -> b.k # "inf"
    [] b.k = "ninf" -> a.k # "ninf"
    [] OTHER -> FALSE
Zero == Fin(0)

\* a Waypoint
Wp(lat, lng, ele, time) ==
  [lat |-> lat, lng |-> lng, ele |-> ele, time |-> time, name |-> None]

\* haversineDistance: the great-circle distance of two positions, held in
\* whole degrees along the meridian and the parallel (zero exactly for equal
\* positions, symmetric); NaN when a coordinate is not finite
haversineDistance(p1, p2) ==
  IF \E c \in {p1.lat, p1.lng, p2.lat, p2.lng} : c.k # "fin" THEN NaN
  ELSE Plus(MathAbs(Minus(p2.lat, p1.lat)), MathAbs(Minus(p2.lng, p1.lng)))

\* a Date at t seconds
At(t) == Some([ms |-> Fin(t * 1000)])
Ele(e) == Some(Fin(e))
Pos(lat, lng, ele, time) == Wp(Fin(lat), Fin(lng), ele, time)

\* short segments: a climb and a descent with times; no elevations and no
\* times; an elevation missing in the middle; a single point; no point; the
\* last time missing; the first time missing; times running backwards;
\* equal times; elevations of Infinity; a position that is not a number
Segments ==
  { [points |-> << Pos(0, 0, Ele(10), At(0)), Pos(0, 1, Ele(30), At(2)),
                   Pos(1, 1, Ele(20), At(5)) >>],
    [points |-> << Pos(5, 5, None, None), Pos(5, 7, None, None) >>],
    [points |-> << Pos(2, 2, Ele(5), None), Pos(2, 3, None, None),
                   Pos(3, 3, Ele(1), None) >>],
    [points |-> << Pos(9, 9, Ele(7), At(1)) >>],
    [points |-> << >>],
    [points |-> << Pos(1, 1, Ele(1), At(0)), Pos(1, 2, Ele(2), None) >>],
    [points |-> << Pos(1, 1, None, None), Pos(1, 4, None, At(3)) >>],
    [points |-> << Pos(0, 0, None, At(5)), Pos(0, 2, None, At(1)) >>],
    [points |-> << Pos(4, 4, Ele(3), At(2)), Pos(6, 4, Ele(3), At(2)) >>],
    [points |-> << Pos(0, 0, Some(Infinity), None),
                   Pos(0, 1, Some(Infinity), None) >>],
    [points |-> << Wp(NaN, Fin(1), None, None), Pos(1, 1, None, None),
                   Pos(1, 2, None, None) >>] }

\* a long segment of n points: every gap-th point has no elevation (none
\* when gap = 0)
LongSegment(n, gap) ==
  [points |-> [i \in 1..n |->
                 Pos(i % 3, 0,
                     IF gap > 0 /\ i % gap = 0 THEN None ELSE Ele(i % 50),
                     None)]]
\* long segments: at and just above the downsampling threshold, where the
\* step changes, and with 5000 and 5091 elevations among more points
LongSegments ==
  { LongSegment(5000, 0), LongSegment(5001, 0), LongSegment(6000, 0),
    LongSegment(6001, 0), LongSegment(5500, 11), LongSegment(5600, 11) }

\* the body of the loop of computeTrackStats for index i (from 1)
statsStep(pts, i, acc) ==
  LET moved ==
        IF i > 1
        THEN LET both == pts[i].ele # None /\ pts[i - 1].ele # None
                 diff == Minus(pts[i].ele[1], pts[i - 1].ele[1])
             IN [acc EXCEPT
                   !.distance =
                      Plus(@, haversineDistance(pts[i - 1], pts[i])),
                   !.elevGain = IF both /\ Greater(diff, Zero)
                                THEN Plus(@, diff) ELSE @,
                   !.elevLoss = IF both /\ ~Greater(diff, Zero)
                                THEN Plus(@, MathAbs(diff)) ELSE @]
        ELSE acc
  IN IF pts[i].ele # None
     THEN [moved EXCEPT
             !.maxEle = IF @ = None \/ Greater(pts[i].ele[1], @[1])
                        THEN pts[i].ele ELSE @,
             !.minEle = IF @ = None \/ Greater(@[1], pts[i].ele[1])
                        THEN pts[i].ele ELSE @]
     ELSE moved

\* the loop of computeTrackStats over the indices lo..hi, in order (split
\* in halves)
RECURSIVE statsLoop(_, _, _, _)
statsLoop(pts, lo, hi, acc) ==
  IF lo > hi THEN acc
  ELSE IF lo = hi THEN statsStep(pts, lo, acc)
  ELSE LET mid == (lo + hi) \div 2
           half == statsLoop(pts, lo, mid, acc)
       \* the first half has run (its record exists) when the second starts
       IN IF DOMAIN half = {} THEN half
          ELSE statsLoop(pts, mid + 1, hi, half)

\* a Date is truthy; an absent time is not
\* (last.getTime() - first.getTime()) / 1000: the times of the model are
\* whole seconds
durationOf(first, last) ==
  IF first # None /\ last # None
  THEN LET ms == Minus(last[1].ms, first[1].ms)
       IN Some(IF ms.k = "fin" THEN Fin(ms.v \div 1000) ELSE ms)
  ELSE None

\* mutant of avgSpeedOf: the speed is computed for every duration
avgSpeedOfAnyDuration(distance, duration) ==
  IF duration # None THEN Some(Quotient(distance, duration[1])) ELSE None

\* duration && duration > 0 ? distance / duration : null
avgSpeedOf(distance, duration) ==
  IF duration # None /\ Greater(duration[1], Zero)
  THEN Some(Quotient(distance, duration[1]))
  ELSE None

computeTrackStats(track) ==
  LET pts == track.points
      acc == statsLoop(pts, 1, Len(pts),
               [distance |-> Zero, elevGain |-> Zero, elevLoss |-> Zero,
                maxEle |-> None, minEle |-> None])
      first == IF Len(pts) > 0 THEN pts[1].time ELSE None
      last == IF Len(pts) > 0 THEN pts[Len(pts)].time ELSE None
      duration == durationOf(first, last)
  IN [distance |-> acc.distance, elevGain |-> acc.elevGain,
      elevLoss |-> acc.elevLoss, duration |-> duration,
      avgSpeed |-> avgSpeedOf(acc.distance, duration),
      maxEle |-> acc.maxEle, minEle |-> acc.minEle]

\* the profile is downsampled above this many entries, to about this many
DownsampleAbove == 5000
DownsampleTo == 2000

\* the body of the first loop of computeElevationProfile for index i
profileStep(pts, i, acc) ==
  LET cumDist == IF i > 1
                 THEN Plus(acc.cumDist, haversineDistance(pts[i - 1], pts[i]))
                 ELSE acc.cumDist
  IN [cumDist |-> cumDist,
      result |-> IF pts[i].ele # None
                 THEN Append(acc.result,
                        [distance |-> Quotient(cumDist, Fin(1000)),
                         elevation |-> pts[i].ele[1]])
                 ELSE acc.result]

\* that loop over the indices lo..hi, in order (split in halves)
RECURSIVE profileLoop(_, _, _, _)
profileLoop(pts, lo, hi, acc) ==
  IF lo > hi THEN acc
  ELSE IF lo = hi THEN profileStep(pts, lo, acc)
  ELSE LET mid == (lo + hi) \div 2
           half == profileLoop(pts, lo, mid, acc)
       \* the first half has run (its record exists) when the second starts
       IN IF DOMAIN half = {} THEN half
          ELSE profileLoop(pts, mid + 1, hi, half)

\* the full profile: one entry per point with an elevation
fullProfile(track) ==
  profileLoop(track.points, 1, Len(track.points),
              [cumDist |-> Zero, result |-> << >>]).result

\* Math.ceil(a / b) of positive integers
Ceil(a, b) == (a + b - 1) \div b

\* mutant of downsample: the last entry is not pushed
downsampleNoLast(result) ==
  IF Len(result) > DownsampleAbove
  THEN LET step == Ceil(Len(result), DownsampleTo)
           taken == (Len(result) - 2) \div step
       IN << result[1] >> \o [n \in 1..taken |-> result[n * step + 1]]
  ELSE result

\* the downsampling of a profile: the first entry, every step-th entry
\* before the last one (i = step, 2 step, ... while i < length - 1), the
\* last entry
downsample(result) ==
  IF Len(result) > DownsampleAbove
  THEN LET step == Ceil(Len(result), DownsampleTo)
           taken == (Len(result) - 2) \div step
       IN << result[1] >> \o [n \in 1..taken |-> result[n * step + 1]]
          \o << result[Len(result)] >>
  ELSE result

computeElevationProfile(track) ==
  IF \A i \in 1..Len(track.points) : track.points[i].ele = None THEN << >>
  ELSE downsample(fullProfile(track))

\* the body of the loop of focusedStats for one segment: st and segProfile
\* are its statistics and its profile
focusedStep(acc, st, segProfile) ==
  [distance |-> Plus(acc.distance, st.distance),
   elevGain |-> Plus(acc.elevGain, st.elevGain),
   elevLoss |-> Plus(acc.elevLoss, st.elevLoss),
   maxEle |-> IF st.maxEle # None
              THEN (IF acc.maxEle # None
                       /\ ~Greater(st.maxEle[1], acc.maxEle[1])
                    THEN acc.maxEle ELSE st.maxEle)
              ELSE acc.maxEle,
   minEle |-> IF st.minEle # None
              THEN (IF acc.minEle # None
                       /\ ~Greater(acc.minEle[1], st.minEle[1])
                    THEN acc.minEle ELSE st.minEle)
              ELSE acc.minEle,
   totalDuration |->
      IF st.duration # None
      THEN Some(Plus(IF acc.totalDuration = None THEN Zero
                     ELSE acc.totalDuration[1], st.duration[1]))
      ELSE acc.totalDuration,
   allElevation |-> acc.allElevation \o
      [j \in 1..Len(segProfile) |->
         [distance |-> Plus(segProfile[j].distance,
                            Quotient(acc.cumulativeDistance, Fin(1000))),
          elevation |-> segProfile[j].elevation,
          lat |-> None, lng |-> None]],
   cumulativeDistance |-> Plus(acc.cumulativeDistance, st.distance)]

\* the loop of focusedStats over the segments, from segment i on
RECURSIVE focusedLoop(_, _, _)
focusedLoop(tracks, i, acc) ==
  IF i > Len(tracks) THEN acc
  ELSE focusedLoop(tracks, i + 1,
         focusedStep(acc, computeTrackStats(tracks[i]),
                     computeElevationProfile(tracks[i])))

\* mutant of focusedStats: the segments are merged into one line first
focusedStatsMerged(tracks) ==
  IF Len(tracks) = 0 THEN None
  ELSE Some([stats |-> computeTrackStats([points |-> segmentPoints(tracks)]),
             elevation |->
               computeElevationProfile([points |-> segmentPoints(tracks)])])

\* focusedStats for a focused file with these tracks: null without tracks
focusedStats(tracks) ==
  IF Len(tracks) = 0 THEN None
  ELSE LET acc == focusedLoop(tracks, 1,
                    [distance |-> Zero, elevGain |-> Zero, elevLoss |-> Zero,
                     maxEle |-> None, minEle |-> None,
                     totalDuration |-> None, allElevation |-> << >>,
                     cumulativeDistance |-> Zero])
       IN Some([stats |->
                  [distance |-> acc.distance, elevGain |-> acc.elevGain,
                   elevLoss |-> acc.elevLoss, duration |-> acc.totalDuration,
                   avgSpeed |-> avgSpeedOf(acc.distance, acc.totalDuration),
                   maxEle |-> acc.maxEle, minEle |-> acc.minEle],
                elevation |-> acc.allElevation])

(***************************************************************************)
(* The statistics functions on their own: they are called on the segments  *)
(* of a track.                                                             *)
(***************************************************************************)
\* segments of one track
MaxSegs == 2

\* the sequences of at most n short segments
RECURSIVE SegmentSeqs(_)
SegmentSeqs(n) ==
  IF n = 0 THEN { << >> }
  ELSE SegmentSeqs(n - 1)
       \cup { Append(segs, sg) : segs \in SegmentSeqs(n - 1),
                                 sg \in Segments }

\* the tracks the statistics are computed for
Tracks == SegmentSeqs(MaxSegs) \cup { << sg >> : sg \in LongSegments }

StatsInit ==
  /\ PoolIdle
  /\ ParserIdle
  /\ PanelIdle
  /\ shown \in Tracks
  /\ report = None

\* computeTrackStats is called on segment i
CallComputeTrackStats(i) ==
  /\ i \in 1..Len(shown)
  /\ report' = Some([fn |-> "computeTrackStats", seg |-> i,
                     val |-> computeTrackStats(shown[i])])
  /\ UNCHANGED shown
  /\ UNCHANGED << poolVars, viewerVars, parserVars, panelVars >>

\* computeElevationProfile is called on segment i
CallComputeElevationProfile(i) ==
  /\ i \in 1..Len(shown)
  /\ report' = Some([fn |-> "computeElevationProfile", seg |-> i,
                     val |-> computeElevationProfile(shown[i])])
  /\ UNCHANGED shown
  /\ UNCHANGED << poolVars, viewerVars, parserVars, panelVars >>

\* the focusedStats memo is computed for a focused file with these segments
CallFocusedStats ==
  /\ report' = Some([fn |-> "focusedStats", seg |-> 0,
                     val |-> focusedStats(shown)])
  /\ UNCHANGED shown
  /\ UNCHANGED << poolVars, viewerVars, parserVars, panelVars >>

StatsNext ==
  \/ \E i \in 1..Len(shown) : CallComputeTrackStats(i)
  \/ \E i \in 1..Len(shown) : CallComputeElevationProfile(i)
  \/ CallFocusedStats

StatsSpec == StatsInit /\ [][StatsNext]_vars

(***************************************************************************)
(* Properties of the statistics.                                           *)
(***************************************************************************)
\* the sum of computeTrackStats(segment).distance over the segments, in
\* order
RECURSIVE SumOfDistances(_)
SumOfDistances(tracks) ==
  IF tracks = << >> THEN Zero
  ELSE Plus(SumOfDistances(SubSeq(tracks, 1, Len(tracks) - 1)),
            computeTrackStats(tracks[Len(tracks)]).distance)

\* the focusedStats memo was computed for a track with segments
Aggregated ==
  report # None /\ report[1].fn = "focusedStats" /\ report[1].val # None

\* C21: the distance focusedStats aggregates for a track is the sum of
\* computeTrackStats(segment).distance over its segments: the gap between
\* the last point of a segment and the first point of the next adds nothing
C21_DistanceIsSumOfSegments ==
  Aggregated =>
    report[1].val[1].stats.distance = SumOfDistances(shown)

\* C21 witness: the statistics of a track of two segments that lie apart,
\* each with a distance of its own
C21_Witness ==
  /\ Aggregated
  /\ Len(shown) = 2
  /\ shown[1].points # << >> /\ shown[2].points # << >>
  /\ haversineDistance(shown[1].points[Len(shown[1].points)],
                       shown[2].points[1]).k = "fin"
  /\ haversineDistance(shown[1].points[Len(shown[1].points)],
                       shown[2].points[1]).v > 0
  /\ computeTrackStats(shown[1]).distance.k = "fin"
  /\ computeTrackStats(shown[1]).distance.v > 0
  /\ computeTrackStats(shown[2]).distance.k = "fin"
  /\ computeTrackStats(shown[2]).distance.v > 0

\* computeTrackStats was called on a segment
StatsOf(i) ==
  report # None /\ report[1].fn = "computeTrackStats" /\ report[1].seg = i

\* every point of the segment carries an elevation, and there is a point
AllElevations(track) ==
  /\ Len(track.points) > 0
  /\ \A j \in 1..Len(track.points) : track.points[j].ele # None

\* a >= 0: false for NaN
NonNegative(a) == a.k \in {"fin", "inf"} /\ (a.k = "fin" => a.v >= 0)

\* C22: for a segment in which every point carries an elevation,
\* computeTrackStats returns elevGain - elevLoss equal to the elevation of
\* the last point minus the elevation of the first point, with
\* elevGain >= 0 and elevLoss >= 0
C22_GainMinusLoss ==
  \A i \in 1..Len(shown) :
    (StatsOf(i) /\ AllElevations(shown[i])) =>
      LET st == report[1].val
          pts == shown[i].points
      IN /\ Minus(st.elevGain, st.elevLoss)
              = Minus(pts[Len(pts)].ele[1], pts[1].ele[1])
         /\ NonNegative(st.elevGain)
         /\ NonNegative(st.elevLoss)

\* computeElevationProfile was called on a segment
ProfileOf(i) ==
  /\ report # None
  /\ report[1].fn = "computeElevationProfile"
  /\ report[1].seg = i

\* C23: for a segment with more than 5000 points that carry an elevation,
\* computeElevationProfile returns a profile whose first and last entries
\* are the first and last entries of the full profile, and which has at
\* most 2001 entries
C23_DownsampleKeepsEnds ==
  \A i \in 1..Len(shown) :
    ProfileOf(i) =>
      LET full == fullProfile(shown[i])
          profile == report[1].val
      IN Len(full) > 5000 =>
           /\ profile[1] = full[1]
           /\ profile[Len(profile)] = full[Len(full)]
           /\ Len(profile) <= 2001

\* C23 witness: the profile of a segment of 5600 points, 5091 of them with
\* an elevation, was reduced, and the profile of 6000 elevations has 2001
\* entries
C23_Witness ==
  /\ ProfileOf(1)
  /\ Len(fullProfile(shown[1])) = 6000
  /\ Len(report[1].val) = 2001

\* C24: computeTrackStats(segment).duration is null exactly when the first
\* or the last point of the segment has no timestamp (a segment without
\* points included), and avgSpeed is null whenever duration is null or
\* duration <= 0
C24_DurationAndSpeedNull ==
  \A i \in 1..Len(shown) :
    StatsOf(i) =>
      LET st == report[1].val
          pts == shown[i].points
      IN /\ (st.duration = None) <=>
              (\/ Len(pts) = 0
               \/ pts[1].time = None
               \/ pts[Len(pts)].time = None)
         /\ (st.duration = None
               \/ (st.duration[1].k = "fin" /\ st.duration[1].v <= 0)) =>
              st.avgSpeed = None

\* C24 witness: the statistics of a segment whose times run backwards: it
\* has a duration, below zero, and no speed
C24_Witness ==
  \E i \in 1..Len(shown) :
    /\ StatsOf(i)
    /\ report[1].val.duration # None
    /\ report[1].val.duration[1].v < 0
    /\ report[1].val.distance.v > 0
    /\ report[1].val.avgSpeed = None

(***************************************************************************)
(* Properties of the document metadata.                                    *)
(***************************************************************************)
\* C25: the name of the Track the fallback parser returns is the text of
\* the name element at document level, and is absent when there is no such
\* element: a name nested inside a wpt, trk or rte is not taken
C25_TopLevelName ==
  (Produced /\ FallbackCalled) =>
    parsed[1].val[1].name
      = (IF Truthy(input.name) THEN input.name ELSE None)

(***************************************************************************)
(* components/GpxViewer.tsx: the file list and the focus. The files are    *)
(* parsed in process (no Worker), the user focuses, removes and clears     *)
(* files while uploads are in progress.                                    *)
(***************************************************************************)
\* processFiles calls made on one viewer
MaxBatches == 2
\* files offered over all of them: one more than there are colours
OfferedLimit == TrackColors + 1
\* removeFile calls made
MaxRemovals == 1

\* the file lists uploaded: one file; a file that fails and one that
\* parses; eight files, as many as there are colours
PanelUploads ==
  { << FileB >>, << FileBad, FileA >>,
    << FileA, FileB, FileA, FileA, FileB, FileA, FileA, FileB >> }

\* the file list and the focus as one value
ThePanel ==
  [files |-> files, focusedFileId |-> focusedFileId,
   polylineClicked |-> polylineClicked]

\* the state after a handler returned panel value P
BecomesPanel(P) ==
  /\ files' = P.files
  /\ focusedFileId' = P.focusedFileId
  /\ polylineClicked' = P.polylineClicked

\* focusFile(file): the file is focused, or the focus is dropped when it
\* had it
focusFile(P, file) ==
  [P EXCEPT !.focusedFileId = IF @ = file.id THEN 0 ELSE file.id]

\* clearFocus(): skipped once after a click on a polyline
clearFocus(P) ==
  IF P.polylineClicked THEN [P EXCEPT !.polylineClicked = FALSE]
  ELSE [P EXCEPT !.focusedFileId = 0]

\* mutant of removeFile: the focus is not looked at
removeFileKeepsFocus(P, id) ==
  [P EXCEPT !.files = SelectSeq(@, LAMBDA f : f.id # id)]

\* removeFile(id)
removeFile(P, id) ==
  [P EXCEPT !.files = SelectSeq(@, LAMBDA f : f.id # id),
            !.focusedFileId = IF @ = id THEN 0 ELSE @]

\* clearAll()
clearAll(P) == [P EXCEPT !.files = << >>, !.focusedFileId = 0]

\* the files removed one by one or cleared so far: ids issued and no longer
\* in the list
Removed == fileId - Len(files)

PanelInit ==
  /\ ViewerInit
  /\ ~workerAvail
  /\ hasDOMParser

\* handleFileUpload / handleDrop
PanelUpload(fileList) ==
  /\ UNCHANGED << parserVars, panelVars, statsVars >>
  /\ Len(batches) < MaxBatches
  /\ Offered(batches) + Len(fileList) <= OfferedLimit
  /\ StartProcessFiles(fileList)

\* a click on file i of the list
FocusFile(i) ==
  /\ i \in 1..Len(files)
  /\ BecomesPanel(focusFile(ThePanel, files[i]))
  /\ UNCHANGED << poolVars, workerAvail, hw, poolRef, mounted, calls,
                  batches, errors, loading, fileId, timers >>
  /\ UNCHANGED << parserVars, statsVars >>

\* a click on the polyline of file i
ClickPolyline(i) ==
  /\ i \in 1..Len(files)
  /\ files[i].data.tracks # << >>
  /\ BecomesPanel(focusFile([ThePanel EXCEPT !.polylineClicked = TRUE],
                            files[i]))
  /\ UNCHANGED << poolVars, workerAvail, hw, poolRef, mounted, calls,
                  batches, errors, loading, fileId, timers >>
  /\ UNCHANGED << parserVars, statsVars >>

\* a click on the map
ClickMap ==
  /\ BecomesPanel(clearFocus(ThePanel))
  /\ UNCHANGED << poolVars, workerAvail, hw, poolRef, mounted, calls,
                  batches, errors, loading, fileId, timers >>
  /\ UNCHANGED << parserVars, statsVars >>

\* a click on the remove button of file i
RemoveFile(i) ==
  /\ i \in 1..Len(files)
  /\ Removed < MaxRemovals
  /\ BecomesPanel(removeFile(ThePanel, files[i].id))
  /\ UNCHANGED << poolVars, workerAvail, hw, poolRef, mounted, calls,
                  batches, errors, loading, fileId, timers >>
  /\ UNCHANGED << parserVars, statsVars >>

\* a click on the clear button
ClearAll ==
  /\ files # << >>
  /\ BecomesPanel(clearAll(ThePanel))
  /\ UNCHANGED << poolVars, workerAvail, hw, poolRef, mounted, calls,
                  batches, errors, loading, fileId, timers >>
  /\ UNCHANGED << parserVars, statsVars >>

\* the in-process parses complete in call order, and the converter works
PanelNext ==
  \/ \E fileList \in PanelUploads : PanelUpload(fileList)
  \/ \E b \in 1..Len(batches) : ReadDone(b)
  \/ \E c \in 1..Len(calls) :
       /\ \A d \in 1..(c - 1) : calls[d].pc # "parseGPX"
       /\ ParseGPXDone(c, "ok")
  \/ \E i \in 1..Len(files) : FocusFile(i)
  \/ \E i \in 1..Len(files) : ClickPolyline(i)
  \/ ClickMap
  \/ \E i \in 1..Len(files) : RemoveFile(i)
  \/ ClearAll
  \/ ErrorsTimeout

PanelSpec == PanelInit /\ [][PanelNext]_vars

(***************************************************************************)
(* Properties of the file list and the focus.                              *)
(***************************************************************************)
\* the numbers 1..n in order
Indices(n) == [i \in 1..n |-> i]

\* C26: a processFiles call that completes appends its successfully parsed
\* files after the files in the list, in input order, and leaves the files
\* already in the list as they are and where they are, also when another
\* call is in progress; its i-th new file (i from 0) gets colour number
\* (previous length + i) mod 8
C26_AdditiveLoading ==
  [][\A b \in 1..Len(batches) :
       (batches[b].pc # "done" /\ batches'[b].pc = "done") =>
         LET B == batches'[b]
             parsedOk == SelectSeq(Indices(Len(B.gpxFiles)),
                           LAMBDA i : calls'[B.calls[i]].pc = "fulfilled")
             prev == Len(files)
         IN /\ Len(files') = prev + Len(parsedOk)
            /\ SubSeq(files', 1, prev) = files
            /\ \A i \in 1..Len(parsedOk) :
                 /\ files'[prev + i].fileName = B.gpxFiles[parsedOk[i]].name
                 /\ files'[prev + i].data
                      = calls'[B.calls[parsedOk[i]]].value[1]
                 /\ files'[prev + i].color = (prev + (i - 1)) % 8]_vars

\* C26 witness: of two overlapping processFiles calls the second ended
\* first, the first then appended eight files after its file, and the ninth
\* file of the list got the first colour again
C26_Witness ==
  /\ Len(batches) = 2
  /\ batches[1].pc = "done" /\ batches[2].pc = "done"
  /\ Len(files) = 9
  /\ batches[2].newEntries # << >>
  /\ files[1].id = batches[2].newEntries[1].id
  /\ files[2].id = batches[1].newEntries[1].id
  /\ files[8].color = 7
  /\ files[9].color = 0

\* C30: focusedFileId is null or the id of a file in the files list, and
\* the ids of the files in the list are distinct
C30_FocusOnListedFile ==
  /\ focusedFileId = 0 \/ \E i \in 1..Len(files) : files[i].id = focusedFileId
  /\ \A i, j \in 1..Len(files) : files[i].id = files[j].id => i = j

\* C30 witness: after a file was removed or the list cleared, a file of a
\* list of several files has the focus
C30_Witness ==
  /\ Removed > 0
  /\ focusedFileId # 0
  /\ \E i \in 1..Len(files) : files[i].id = focusedFileId
  /\ Len(files) >= 2

====
